---- MODULE Spec2Model ----
(***************************************************************************)
(* Model of the command-list interpreter of                                *)
(* drivers/gpu/drm/panel/panel-simple.c: send_all_cmd_lists runs the       *)
(* two-wire, command-interface and serial streams of one phase through     *)
(* send_cmd_list; one action models one iteration of its while(1) loop,    *)
(* with every backend call the iteration makes.                            *)
(***************************************************************************)
EXTENDS Integers, Sequences, FiniteSets, TLC

\* ------------------------------------------------------------------------
\* Program constants
\* ------------------------------------------------------------------------

\* errno values (include/uapi/asm-generic/errno*.h), returned negated
EIO == 5
ENXIO == 6
EINVAL == 22
EPROTO == 71

\* opcodes of <dt-bindings/display/simple_panel_mipi_cmds.h>; the header is
\* not part of the sources at hand, the values keep the order relations the
\* dispatch of send_cmd_list relies on
S_DELAY == 32
S_CONST == 33
S_HSYNC == 34
S_HBP == 35
S_HACTIVE == 36
S_HFP == 37
S_VSYNC == 38
S_VBP == 39
S_VACTIVE == 40
S_VFP == 41
S_DCS_LENGTH == 48
S_DCS_BUF == 49
S_MRPS == 50
S_DCS_READ1 == 65
S_DCS_READ8 == 72
S_IF_1_LANE == 113
S_IF_4_LANES == 116

\* sizeof(panel->tx_buf), sizeof(cmd_buf)
TX_BUF_SIZE == 63
CMD_BUF_SIZE == 32

TYPE_MIPI == "mipi"
TYPE_I2C == "i2c"
TYPE_SPI == "spi"

\* ------------------------------------------------------------------------
\* Bounds of the model
\* ------------------------------------------------------------------------

\* number of whole instructions a command stream is built from
MaxInstr == 2
\* number of bytes that may be missing at the end of a stream
MaxCut == 2

\* ------------------------------------------------------------------------
\* Helpers
\* ------------------------------------------------------------------------

\* the powers of two a 32-bit shift count below 31 can select
Pow2Table == <<1, 2, 4, 8, 16, 32, 64, 128, 256, 512, 1024, 2048, 4096, 8192,
               16384, 32768, 65536, 131072, 262144, 524288, 1048576, 2097152,
               4194304, 8388608, 16777216, 33554432, 67108864, 134217728,
               268435456, 536870912, 1073741824>>

Pow2(n) == IF n <= 0 THEN 1 ELSE Pow2Table[n + 1]

Bit(x, k) == (x \div Pow2(k)) % 2

Min(a, b) == IF a < b THEN a ELSE b

\* one observed physical operation
Op(name, arg, r) == [op |-> name, arg |-> arg, ret |-> r, tx |-> <<>>]

\* one backend call as seen by the interpreter
Call(name, r) == [fn |-> name, ret |-> r]

Zeros(n) == [k \in 1..n |-> 0]

\* ------------------------------------------------------------------------
\* State
\* ------------------------------------------------------------------------

VARIABLES
    i2c,        \* panel->i2c is set (two-wire handle present)
    spi,        \* panel->spi is set (serial handle present)
    spi_9bit,   \* panel->spi_9bit
    lanes,      \* dsi->lanes
    msc,        \* the interface_cmds of the phase: [i2c, mipi, spi] streams
    spi_bits,   \* panel->spi_bits, the bit accumulator
    tx_buf,     \* panel->tx_buf, the transmit staging buffer
    lpm,        \* MIPI_DSI_MODE_LPM set in dsi->mode_flags
    stage,      \* position of send_all_cmd_lists: "i2c","mipi","spi","ret"
    ret,        \* ret of send_all_cmd_lists
    type,       \* type of the running send_cmd_list, "none" when none runs
    cmd,        \* number of stream bytes consumed (cmd - mc->cmds)
    length,     \* remaining-length counter of send_cmd_list
    skip,       \* skip flag of send_cmd_list
    match,      \* match of send_cmd_list
    cmd_buf,    \* staged output buffer cmd_buf[32] of send_cmd_list
    log,        \* every physical operation observed so far, in order
    last,       \* what the last loop iteration decoded and called
    seen,       \* what happened so far in the running send_cmd_list
    runs,       \* the send_cmd_list calls of the phase and their results
    prepared,   \* p->prepared
    enabled,    \* p->enabled
    supply,     \* enable count of the regulator p->supply
    gpd_prepare_enable, \* value of the prepare-enable line, NoLine if none
    reset,      \* value of the reset line, NoLine if none
    backlight,  \* "on", "off" (powered down), "absent" if p->backlight is NULL
    cmds,       \* p->cmds_init, p->cmds_enable, p->cmds_disable
    desc,       \* p->desc: the delays of the panel
    pc,         \* the lifecycle call in progress, "idle" between calls
    called,     \* the last lifecycle call that returned, and what it returned
    pk          \* the last call made on the packer alone

\* a line the device tree does not give (a NULL gpio_desc)
NoLine == -1

\* backlight->props.power
FB_BLANK_UNBLANK == 0
FB_BLANK_POWERDOWN == 4

\* the state the lifecycle calls work on
lifeVars == <<prepared, enabled, supply, gpd_prepare_enable, reset, backlight,
              cmds, desc, pc, called>>

vars == <<i2c, spi, spi_9bit, lanes, msc, spi_bits, tx_buf, lpm, stage, ret, type,
          cmd, length, skip, match, cmd_buf, log, last, seen, runs, lifeVars,
          pk>>

\* ------------------------------------------------------------------------
\* Outcomes of the physical layer (inputs of the model)
\* ------------------------------------------------------------------------

\* spi_sync: 0 or a negative errno
SpiRets == {0, -EIO}
\* i2c_transfer: number of messages transferred or a negative errno
I2cRets == {1, -EIO, -ENXIO}
\* mipi_dsi_*_write, mipi_dsi_set_maximum_return_packet_size
DsiWriteRets == {0, -EIO}
\* mipi_dsi_generic_read / mipi_dsi_dcs_read: bytes read or negative errno
DsiReadErrs == {-EPROTO, -EIO}
\* byte values a device answers a read with
ReadBytes == {14, 15}
\* bytes found behind the end of a stream, and stack garbage in cmd_buf
OobBytes == {0, 15}
GarbageBytes == {0, 255}

\* ------------------------------------------------------------------------
\* Transport backends.  Each returns [ret, bits, ops]: the return value,
\* panel->spi_bits afterwards and the physical operations it performed.
\* ------------------------------------------------------------------------

\* "memcpy(buf, p, l)"
Memcpy(buf, p) == [k \in 0..(Len(p) - 1) |-> p[k + 1]] @@ buf

\* the first n bytes of a buffer, as a transfer puts them on the wire
Wire(buf, n) == [k \in 1..n |-> buf[k - 1]] \o <<>>

\* spi_send(panel, rx) with panel->tx_buf = buf and panel->spi_bits = bits;
\* o is what spi_sync returns.  The transfer carries t.len bytes of tx_buf.
spi_send(buf, bits, rx, o) ==
    IF ~spi \/ bits = 0
    THEN [ret |-> 0, bits |-> bits, ops |-> <<>>]
    ELSE [ret |-> o, bits |-> 0,
          ops |-> <<[op |-> IF rx THEN "spi_sync_rx" ELSE "spi_sync",
                     arg |-> <<(bits + 7) \div 8, bits>>, ret |-> o,
                     tx |-> Wire(buf, (bits + 7) \div 8)]>>]

\* the while (bits > 0) loop of store_9bit; b is the index buf points at and
\* p the bytes not yet taken.  val is unsigned; its bits at and above v_bits
\* are never read, so only the low 12 are carried over a shift.
\* One pass is taken on the tuple <<buf, b, val, v_bits, bits, p>> of the
\* loop's variables, b the index buf points at and p the bytes not yet read.
Store9Pass(st) ==
    LET buf == st[1]
        b == st[2]
        val == st[3]
        bits == st[5]
        p == st[6]
        buf1 == [buf EXCEPT ![b] = (val \div Pow2(st[4] - 8)) % 256]
        vb == st[4] - 8
        sh == (val % 4096) * 512
    IN IF vb < 8
       THEN IF Len(p) > 0
            THEN <<buf1, b + 1, sh + 256 + p[1], vb + 9, bits - 8, Tail(p)>>
            ELSE <<buf1, b + 1, sh, vb + 9, bits - 8, p>>
       ELSE <<buf1, b + 1, val, vb, bits - 8, p>>

RECURSIVE Store9Loop(_)
Store9Loop(st) ==
    \* (s names the value of the tuple, taken once per pass)
    CHOOSE r \in {IF s[5] <= 0 THEN s[1] ELSE Store9Loop(Store9Pass(s)) :
                     s \in {st}} : TRUE

\* the first byte of a call is marked like the bytes after it
Store9AtMarked(buf, i, p) ==
    LET v_bits == i % 8
        val == IF v_bits # 0 THEN buf[i \div 8] \div Pow2(8 - v_bits) ELSE 0
    IN Store9Loop(<<buf, i \div 8,
                    val * 512 + (IF Len(p) > 0 THEN 256 + p[1] ELSE 0),
                    v_bits + 9, Len(p) * 9 + v_bits,
                    IF Len(p) > 0 THEN Tail(p) ELSE p>>)

\* the bits pending in the byte that bit i falls into are not taken over
Store9AtClobbers(buf, i, p) ==
    LET v_bits == i % 8
    IN Store9Loop(<<buf, i \div 8,
                    IF Len(p) > 0 THEN p[1] ELSE 0,
                    v_bits + 9, Len(p) * 9 + v_bits,
                    IF Len(p) > 0 THEN Tail(p) ELSE p>>)

\* store_9bit from "buf += i >> 3" on: the bytes p packed at bit offset i
Store9At(buf, i, p) ==
    LET v_bits == i % 8
        val == IF v_bits # 0 THEN buf[i \div 8] \div Pow2(8 - v_bits) ELSE 0
    IN Store9Loop(<<buf, i \div 8,
                    val * 512 + (IF Len(p) > 0 THEN p[1] ELSE 0),
                    v_bits + 9, Len(p) * 9 + v_bits,
                    IF Len(p) > 0 THEN Tail(p) ELSE p>>)

\* the packed bytes are transferred before store_9bit returns
store_9bit_flush(buf, i, p, o) ==
    LET bits == Len(p) * 9
        f == spi_send(buf, i, FALSE, o)
        g == spi_send(Store9At(buf, IF i + bits > TX_BUF_SIZE * 8 THEN 0 ELSE i, p),
                      IF i + bits > TX_BUF_SIZE * 8 THEN bits ELSE i + bits,
                      FALSE, o)
    IN IF bits > TX_BUF_SIZE * 8
       THEN [ret |-> -EINVAL, bits |-> f.bits, ops |-> f.ops, buf |-> buf]
       ELSE [ret |-> g.ret, bits |-> 0,
             ops |-> (IF i + bits > TX_BUF_SIZE * 8 THEN f.ops ELSE <<>>)
                     \o g.ops,
             buf |-> Store9At(buf, IF i + bits > TX_BUF_SIZE * 8 THEN 0 ELSE i, p)]

\* a payload that fills the buffer to the last bit counts as too long
store_9bit_strict(buf, i, p, o) ==
    LET bits == Len(p) * 9
        f == spi_send(buf, i, FALSE, o)
    IN IF i + bits >= TX_BUF_SIZE * 8
       THEN IF bits >= TX_BUF_SIZE * 8
            THEN [ret |-> -EINVAL, bits |-> f.bits, ops |-> f.ops, buf |-> buf]
            ELSE [ret |-> f.ret, bits |-> bits, ops |-> f.ops,
                  buf |-> Store9At(buf, 0, p)]
       ELSE [ret |-> 0, bits |-> i + bits, ops |-> <<>>,
             buf |-> Store9At(buf, i, p)]

\* the bit count is not restarted by the flush
store_9bit_adds(buf, i, p, o) ==
    LET bits == Len(p) * 9 IN
    IF i + bits > TX_BUF_SIZE * 8
    THEN LET f == spi_send(buf, i, FALSE, o) IN
         IF bits > TX_BUF_SIZE * 8
         THEN [ret |-> -EINVAL, bits |-> f.bits, ops |-> f.ops, buf |-> buf]
         ELSE [ret |-> f.ret, bits |-> i + bits, ops |-> f.ops,
               buf |-> Store9At(buf, 0, p)]
    ELSE [ret |-> 0, bits |-> i + bits, ops |-> <<>>,
          buf |-> Store9At(buf, i, p)]

\* store_9bit(panel, p, l) with panel->tx_buf = buf and panel->spi_bits = i
store_9bit(buf, i, p, o) ==
    LET bits == Len(p) * 9 IN
    IF i + bits > TX_BUF_SIZE * 8
    THEN LET f == spi_send(buf, i, FALSE, o) IN
         IF bits > TX_BUF_SIZE * 8
         THEN [ret |-> -EINVAL, bits |-> f.bits, ops |-> f.ops, buf |-> buf]
         ELSE [ret |-> f.ret, bits |-> bits, ops |-> f.ops,
               buf |-> Store9At(buf, 0, p)]
    ELSE [ret |-> 0, bits |-> i + bits, ops |-> <<>>,
          buf |-> Store9At(buf, i, p)]

\* the while (bits > 0) loop of store_high; "val = (val << 24) | 0xffffff"
\* is taken with v_bits < 8, when only the low 7 bits of val are still read
RECURSIVE StoreHighLoop(_, _, _, _, _)
StoreHighLoop(buf, b, val, v_bits, bits) ==
    IF bits <= 0 THEN buf
    ELSE LET fill == v_bits < 8
             val1 == IF fill THEN (val % 128) * Pow2(24) + (Pow2(24) - 1)
                     ELSE val
             vb == IF fill THEN v_bits + 24 ELSE v_bits
         IN StoreHighLoop([buf EXCEPT ![b] = (val1 \div Pow2(vb - 8)) % 256],
                          b + 1, val1, vb - 8, bits - 8)

\* store_high(panel, bits) with panel->tx_buf = buf and panel->spi_bits = i
store_high(buf, i, bits) ==
    IF i + bits > TX_BUF_SIZE * 8
    THEN [ret |-> -EINVAL, bits |-> i, ops |-> <<>>, buf |-> buf]
    ELSE LET v_bits == i % 8
             val == IF v_bits # 0 THEN buf[i \div 8] \div Pow2(8 - v_bits)
                    ELSE 0
         IN [ret |-> 0, bits |-> i + bits, ops |-> <<>>,
             buf |-> StoreHighLoop(buf, i \div 8, val, v_bits, bits + v_bits)]

\* the while (bytes > 0) loop of extract_data; b is the index buf points at
RECURSIVE ExtractLoop(_, _, _, _, _)
ExtractLoop(buf, b, val, v_bits, bytes) ==
    IF bytes = 0 THEN <<>>
    ELSE LET load == v_bits < 8
             val1 == IF load THEN (val % 256) * 256 + buf[b] ELSE val
             vb == IF load THEN v_bits + 8 ELSE v_bits
         IN <<(val1 \div Pow2(vb - 8)) % 256>>
            \o ExtractLoop(buf, IF load THEN b + 1 ELSE b, val1, vb - 8,
                           bytes - 1)

\* the bytes are taken from the byte boundary at or below start_bit
extract_data_aligned(bytes, buf, start_bit) ==
    ExtractLoop(buf, start_bit \div 8, 0, 0, bytes)

\* the first bit at start_bit is taken for a marker and left out
extract_data_behind(bytes, buf, start_bit) ==
    LET s1 == start_bit + 1
        v_bits == s1 % 8
    IN IF v_bits # 0
       THEN ExtractLoop(buf, (s1 \div 8) + 1, buf[s1 \div 8], 8 - v_bits, bytes)
       ELSE ExtractLoop(buf, s1 \div 8, 0, 0, bytes)

\* extract_data(dst, bytes, buf, start_bit): the bytes stored to dst
extract_data(bytes, buf, start_bit) ==
    LET v_bits == start_bit % 8 IN
    IF v_bits # 0
    THEN ExtractLoop(buf, (start_bit \div 8) + 1, buf[start_bit \div 8],
                     8 - v_bits, bytes)
    ELSE ExtractLoop(buf, start_bit \div 8, 0, 0, bytes)

\* the len bytes spi_sync leaves in rx_buf when the device answers the bytes
\* d from bit l on, most significant bit first; pad is what the line
\* carries during the other bits
RxAnswer(d, l, pad, len) ==
    LET bit(k) == IF k >= l /\ k < l + 8 * Len(d)
                  THEN Bit(d[((k - l) \div 8) + 1], 7 - ((k - l) % 8))
                  ELSE pad
    IN [b \in 0..(len - 1) |->
          128 * bit(8 * b) + 64 * bit(8 * b + 1) + 32 * bit(8 * b + 2)
          + 16 * bit(8 * b + 3) + 8 * bit(8 * b + 4) + 4 * bit(8 * b + 5)
          + 2 * bit(8 * b + 6) + bit(8 * b + 7)] @@ <<>>

\* "memcpy(buf, tx, tx_len)" and the exchange of the first two bytes in
\* tx_buf, which both two-wire functions do unless they reject the length
I2cStage(buf, tx) ==
    IF Len(tx) > TX_BUF_SIZE THEN buf
    ELSE LET m == Memcpy(buf, tx) IN
         IF Len(tx) >= 2 THEN [m EXCEPT ![0] = m[1], ![1] = m[0]] ELSE m

\* the payload goes out as it was given
SwapNone(tx) == tx

\* the first two bytes exchanged, as both two-wire functions do
SwapFirstTwo(tx) ==
    IF Len(tx) >= 2
    THEN [k \in 1..Len(tx) |-> IF k = 1 THEN tx[2] ELSE IF k = 2 THEN tx[1] ELSE tx[k]]
    ELSE tx

\* a failed first transfer is not repeated
simple_i2c_write_once(tx, o1, o2) ==
    IF Len(tx) > TX_BUF_SIZE
    THEN [ret |-> -EINVAL, ops |-> <<>>]
    ELSE [ret |-> IF o1 < 0 THEN o1 ELSE 0,
          ops |-> <<Op("i2c_transfer", SwapFirstTwo(tx), o1)>>]

\* the error of the first transfer is reported when both fail
simple_i2c_write_first(tx, o1, o2) ==
    IF Len(tx) > TX_BUF_SIZE
    THEN [ret |-> -EINVAL, ops |-> <<>>]
    ELSE LET buf == SwapFirstTwo(tx)
             first == Op("i2c_transfer", buf, o1)
         IN IF o1 < 0
            THEN [ret |-> IF o2 < 0 THEN o1 ELSE 0,
                  ops |-> <<first, Op("msleep", <<10>>, 0),
                            Op("i2c_transfer", buf, o2)>>]
            ELSE [ret |-> 0, ops |-> <<first>>]

\* simple_i2c_write(panel, tx, tx_len); o1, o2 are what the first and the
\* second i2c_transfer return
simple_i2c_write(tx, o1, o2) ==
    IF Len(tx) > TX_BUF_SIZE
    THEN [ret |-> -EINVAL, ops |-> <<>>]
    ELSE LET buf == SwapFirstTwo(tx)
             first == Op("i2c_transfer", buf, o1)
         IN IF o1 < 0
            THEN [ret |-> IF o2 < 0 THEN o2 ELSE 0,
                  ops |-> <<first, Op("msleep", <<10>>, 0),
                            Op("i2c_transfer", buf, o2)>>]
            ELSE [ret |-> 0, ops |-> <<first>>]

\* simple_i2c_read(panel, tx, tx_len, rx, rx_len): one transfer of two
\* messages, no retry; rx is only filled when the transfer succeeds
simple_i2c_read(tx, rx_len, o) ==
    IF Len(tx) > TX_BUF_SIZE \/ rx_len > TX_BUF_SIZE
    THEN [ret |-> -EINVAL, ops |-> <<>>]
    ELSE [ret |-> IF o < 0 THEN o ELSE 0,
          ops |-> <<Op("i2c_transfer_rd", SwapFirstTwo(tx), o)>>]

\* ------------------------------------------------------------------------
\* send_cmd_list: decoding
\* ------------------------------------------------------------------------

Running == type # "none"

\* mc->cmds of the running list
Stream == msc[type]

\* len = *cmd++
opcode == Stream[cmd + 1]

\* the byte at stream offset k (0-based); behind the end of the stream the
\* code reads whatever memory follows, oob
ByteAt(k, oob) == IF k + 1 <= Len(Stream) THEN Stream[k + 1] ELSE oob

\* the n bytes at stream offsets k .. k+n-1: the stream, and oob behind it
BytesAt(k, n, oob) ==
    SubSeq(Stream \o [j \in 1..(n + 8) |-> oob], k + 1, k + n)

\* generic = len & 0x80; len &= 0x7f
IsGeneric(b) == b >= 128
Low7(b) == b % 128

\* the branch of the if/else chain of send_cmd_list an opcode byte selects,
\* in the order the code tests them
Kind(b) ==
    IF b >= S_IF_1_LANE /\ b <= S_IF_4_LANES THEN "lane"
    ELSE LET len == Low7(b) IN
         IF len < S_DELAY \/ len = S_DCS_LENGTH \/ len = S_DCS_BUF THEN "write"
         ELSE IF len = S_MRPS THEN "mrps"
         ELSE IF len >= S_DCS_READ1 /\ len <= S_DCS_READ8 THEN "read"
         ELSE IF len = S_DELAY THEN "delay"
         ELSE IF len >= S_CONST /\ len <= S_VFP THEN "patch"
         ELSE "unknown"

\* "v |= ((u64)d[i]) << (i << 3)" for i < len: the u64 as its eight
\* base-256 digits, least significant first (readval, matchval)
LeValue(d) == [i \in 0..7 |-> IF i < Len(d) THEN d[i + 1] ELSE 0]

NextStage(t) == IF t = TYPE_I2C THEN "mipi" ELSE IF t = TYPE_MIPI THEN "spi" ELSE "ret"

Tag(ops) == [k \in 1..Len(ops) |-> [op |-> ops[k].op, arg |-> ops[k].arg,
                                    ret |-> ops[k].ret, tx |-> ops[k].tx,
                                    by |-> type]]

\* the u32 0 as its bits
NoVal == [k \in 0..31 |-> 0]

NoLast == [kind |-> "none", generic |-> FALSE, trunc |-> FALSE,
           skipped |-> FALSE, mismatch |-> FALSE, exit |-> "none",
           calls |-> <<>>, mark |-> 0, pos |-> 0, data |-> <<>>, rv |-> 0,
           type |-> "none", nops |-> 0, ncalls |-> 0, bits0 |-> 0,
           rx |-> <<>>, val |-> NoVal, top |-> -1]

NoSeen == [mismatch |-> FALSE, unknown |-> FALSE, trunc |-> FALSE,
           failed |-> FALSE, steps |-> 0]

\* ------------------------------------------------------------------------
\* send_cmd_list: one loop iteration
\* ------------------------------------------------------------------------

\* what an iteration leaves behind; ctl is "cont" (next iteration), "break"
\* (leave the loop, run the code after it) or "ret" (return rv at once)
Eff0 == [ctl |-> "cont", rv |-> 0, cmd |-> cmd, length |-> length,
         skip |-> FALSE, match |-> match, bits |-> spi_bits, tx |-> tx_buf,
         buf |-> cmd_buf,
         ops |-> <<>>, calls |-> <<>>, kind |-> "none", generic |-> FALSE,
         trunc |-> FALSE, skipped |-> skip, mismatch |-> FALSE,
         unknown |-> FALSE, data |-> <<>>, rx |-> <<>>, val |-> NoVal,
         top |-> -1]

\* the tail every iteration shares: "if (ret < 0) return ret", the second
\* length check, "cmd += len; length -= len; if (!length) break; skip = 0"
Advance(e, r, c, n, len) ==
    IF r < 0 THEN [e EXCEPT !.ctl = "ret", !.rv = r, !.cmd = c, !.length = n,
                            !.skip = skip]
    ELSE IF n < len THEN [e EXCEPT !.ctl = "break", !.cmd = c, !.length = n,
                                   !.skip = skip, !.trunc = TRUE]
    ELSE IF n - len = 0 THEN [e EXCEPT !.ctl = "break", !.cmd = c + len,
                                       !.length = 0, !.skip = skip]
    ELSE [e EXCEPT !.cmd = c + len, !.length = n - len, !.skip = FALSE]

\* the state after an iteration; for "break" this includes the code after
\* the loop (the final spi_send, of is what its spi_sync returns) and the
\* return to send_all_cmd_lists.  (\E x \in {v} names the value v.)
Apply(eff, of) ==
    \E e \in {eff} :
    \E fin \in {IF e.ctl = "break" /\ e.match = 0 /\ type = TYPE_SPI
                THEN spi_send(e.tx, e.bits, FALSE, of)
                ELSE [ret |-> e.match, bits |-> e.bits, ops |-> <<>>]} :
    LET doFlush == e.ctl = "break" /\ e.match = 0 /\ type = TYPE_SPI
        allcalls == e.calls \o (IF doFlush THEN <<Call("spi_send", fin.ret)>>
                                ELSE <<>>)
        result == IF e.ctl = "ret" THEN e.rv ELSE fin.ret
    IN
    /\ cmd' = e.cmd
    /\ length' = e.length
    /\ skip' = e.skip
    /\ match' = IF e.ctl = "break" THEN result ELSE e.match
    /\ spi_bits' = fin.bits
    /\ tx_buf' = e.tx
    /\ cmd_buf' = e.buf
    /\ log' = log \o Tag(e.ops \o fin.ops)
    /\ last' = [kind |-> e.kind, generic |-> e.generic, trunc |-> e.trunc,
                skipped |-> e.skipped, mismatch |-> e.mismatch,
                exit |-> e.ctl, calls |-> allcalls, mark |-> Len(log),
                pos |-> cmd, data |-> e.data,
                rv |-> IF e.ctl = "cont" THEN 0 ELSE result,
                type |-> type, nops |-> Len(e.ops), ncalls |-> Len(e.calls),
                bits0 |-> spi_bits, rx |-> e.rx, val |-> e.val,
                top |-> e.top]
    /\ seen' = [mismatch |-> seen.mismatch \/ e.mismatch,
                unknown |-> seen.unknown \/ e.unknown,
                trunc |-> seen.trunc \/ e.trunc,
                failed |-> seen.failed
                           \/ \E k \in 1..Len(allcalls) : allcalls[k].ret < 0,
                steps |-> seen.steps + 1]
    /\ IF e.ctl = "cont"
       THEN UNCHANGED <<type, stage, ret, runs>>
       ELSE /\ type' = "none"
            /\ stage' = NextStage(type)
            /\ ret' = result
            /\ runs' = Append(runs, [type |-> type, ret |-> result])
    /\ UNCHANGED <<i2c, spi, spi_9bit, lanes, msc, lpm, lifeVars, pk>>

FinalRets == IF type = TYPE_SPI THEN SpiRets ELSE {0}

\* "len = *cmd++; length--; if (!length) break;": the opcode is the last
\* byte of the stream
StepEnd ==
    /\ Running
    /\ length - 1 = 0
    /\ \E of \in FinalRets :
         Apply([Eff0 EXCEPT !.ctl = "break", !.cmd = cmd + 1, !.length = 0,
                            !.skip = skip, !.kind = "end"], of)

\* the lane gate is looked at without being consumed
StepLaneKeeps ==
    /\ Running
    /\ length - 1 > 0
    /\ Kind(opcode) = "lane"
    /\ LET lane_match == 1 + opcode - S_IF_1_LANE IN
       Apply([Eff0 EXCEPT !.skip = (skip \/ lane_match # lanes),
                          !.kind = "lane"], 0)

\* S_IF_1_LANE .. S_IF_4_LANES: "if (lane_match != dsi->lanes) skip = 1;
\* continue;"
StepLane ==
    /\ Running
    /\ length - 1 > 0
    /\ Kind(opcode) = "lane"
    /\ LET lane_match == 1 + opcode - S_IF_1_LANE IN
       Apply([Eff0 EXCEPT !.cmd = cmd + 1, !.length = length - 1,
                          !.skip = (skip \/ lane_match # lanes),
                          !.kind = "lane"], 0)

\* the write branch: a direct write (len < S_DELAY), S_DCS_LENGTH, S_DCS_BUF
WriteRets == IF type = TYPE_I2C THEN I2cRets
             ELSE IF type = TYPE_SPI THEN SpiRets ELSE DsiWriteRets

DoWrite(p, generic, o1, o2) ==
    LET l == Len(p) IN
    IF type = TYPE_I2C
    THEN LET w == simple_i2c_write(p, o1, o2) IN
         [ret |-> w.ret, bits |-> spi_bits, ops |-> w.ops,
          tx |-> I2cStage(tx_buf, p),
          calls |-> <<Call("simple_i2c_write", w.ret)>>]
    ELSE IF type = TYPE_SPI
    THEN IF spi_9bit
         THEN LET w == store_9bit(tx_buf, spi_bits, p, o1) IN
              [ret |-> w.ret, bits |-> w.bits, ops |-> w.ops, tx |-> w.buf,
               calls |-> <<Call("store_9bit", w.ret)>>]
         ELSE IF l < TX_BUF_SIZE
              THEN LET w == spi_send(Memcpy(tx_buf, p), l * 8, FALSE, o1) IN
                   [ret |-> w.ret, bits |-> w.bits, ops |-> w.ops,
                    tx |-> Memcpy(tx_buf, p),
                    calls |-> <<Call("spi_send", w.ret)>>]
              ELSE [ret |-> -EINVAL, bits |-> spi_bits, ops |-> <<>>,
                    tx |-> tx_buf,
                    calls |-> <<Call("spi_write", -EINVAL)>>]
    ELSE LET fn == IF generic THEN "mipi_dsi_generic_write"
                   ELSE "mipi_dsi_dcs_write_buffer" IN
         [ret |-> o1, bits |-> spi_bits, ops |-> <<Op(fn, p, o1)>>,
          tx |-> tx_buf, calls |-> <<Call(fn, o1)>>]

StepWrite ==
    /\ Running
    /\ length - 1 > 0
    /\ Kind(opcode) = "write"
    /\ \E oob \in OobBytes, o1 \in WriteRets, of \in FinalRets :
       \E o2 \in (IF type = TYPE_I2C /\ o1 < 0 THEN I2cRets ELSE {0}) :
         LET op7 == Low7(opcode)
             prefixed == op7 = S_DCS_LENGTH \/ op7 = S_DCS_BUF
             c == IF prefixed THEN cmd + 2 ELSE cmd + 1
             n == IF prefixed THEN length - 2 ELSE length - 1
             len == IF op7 = S_DCS_LENGTH THEN ByteAt(cmd + 1, oob)
                    ELSE IF op7 = S_DCS_BUF THEN 0 ELSE op7
             l == IF op7 = S_DCS_BUF
                  THEN Min(ByteAt(cmd + 1, oob), CMD_BUF_SIZE) ELSE len
             p == IF op7 = S_DCS_BUF THEN Wire(cmd_buf, l)
                  ELSE BytesAt(c, l, oob)
             e == [Eff0 EXCEPT !.kind = "write", !.generic = IsGeneric(opcode)]
         IN IF n < len
            THEN Apply([e EXCEPT !.ctl = "break", !.cmd = c, !.length = n,
                                 !.skip = skip, !.trunc = TRUE], of)
            ELSE IF skip
            THEN Apply(Advance(e, 0, c, n, len), of)
            ELSE \E w \in {DoWrite(p, IsGeneric(opcode), o1, o2)} :
                 Apply(Advance([e EXCEPT !.bits = w.bits, !.ops = w.ops,
                                         !.tx = w.tx, !.calls = w.calls],
                               w.ret, c, n, len), of)

\* S_MRPS: the call is made on the command interface whatever skip is
StepMrps ==
    /\ Running
    /\ length - 1 > 0
    /\ Kind(opcode) = "mrps"
    /\ \E o1 \in (IF type = TYPE_MIPI THEN DsiWriteRets ELSE {0}),
          of \in FinalRets :
         LET fn == "mipi_dsi_set_maximum_return_packet_size"
             e == [Eff0 EXCEPT !.kind = "mrps", !.generic = IsGeneric(opcode),
                     !.ops = IF type = TYPE_MIPI
                             THEN <<Op(fn, <<ByteAt(cmd + 1, 0)>>, o1)>>
                             ELSE <<>>,
                     !.calls = IF type = TYPE_MIPI THEN <<Call(fn, o1)>>
                               ELSE <<>>]
         IN Apply(Advance(e, o1, cmd + 1, length - 1, 1), of)

\* what a device can answer to a read of n bytes
ReadData(n) == [1..n -> ReadBytes]

\* the read is repeated after any error
DsiReadRetryAny(fn, tx, n, a1, a2) ==
    LET r1 == IF a1 < 0 THEN a1 ELSE n
        r2 == IF a2 < 0 THEN a2 ELSE n
    IN IF r1 < 0
       THEN [ret |-> r2, ops |-> <<Op(fn, tx, r1), Op(fn, tx, r2)>>]
       ELSE [ret |-> r1, ops |-> <<Op(fn, tx, r1)>>]

\* mipi_dsi_generic_read / mipi_dsi_dcs_read with the retry on -EPROTO;
\* a1, a2 are the results of the first and the second read (>= 0: success)
DsiRead(fn, tx, n, a1, a2) ==
    LET r1 == IF a1 < 0 THEN a1 ELSE n
        r2 == IF a2 < 0 THEN a2 ELSE n
    IN IF r1 = -EPROTO
       THEN [ret |-> r2, ops |-> <<Op(fn, tx, r1), Op(fn, tx, r2)>>]
       ELSE [ret |-> r1, ops |-> <<Op(fn, tx, r1)>>]

\* no serial read is staged on the other transports
NoStage == [l |-> 0, st |-> 0, hi |-> [ret |-> 0, bits |-> 0]]

\* the command bytes are staged behind the bits that were pending
StageReadBehind(tx, n) ==
    LET st == IF spi_9bit THEN store_9bit(tx_buf, spi_bits, tx, 0)
              ELSE [ret |-> 0, bits |-> Len(tx) * 8, ops |-> <<>>,
                    buf |-> Memcpy(tx_buf, tx)]
    IN [l |-> st.bits, hi |-> store_high(st.buf, st.bits, n * 8),
        st |-> st.ret]

\* the serial read up to the transfer: pending bits are dropped from the
\* accumulator by the flush (9-bit framing), the command bytes tx are staged
\* and n * 8 one bits appended; l is the bit offset of the answer
StageRead(tx, n) ==
    LET st == IF spi_9bit THEN store_9bit(tx_buf, 0, tx, 0)
              ELSE [ret |-> 0, bits |-> Len(tx) * 8, ops |-> <<>>,
                    buf |-> Memcpy(tx_buf, tx)]
    IN [l |-> st.bits, hi |-> store_high(st.buf, st.bits, n * 8),
        st |-> st.ret]

\* the transport part of the read branch: [ret, bits, tx, ops, calls,
\* data]; sr is the staged serial read, d what the device answers (on the
\* serial transport what extract_data took from rx_buf)
DoRead(tx, n, generic, sr, d, o1, o2) ==
    IF type = TYPE_I2C
    THEN LET r == simple_i2c_read(tx, n, o1) IN
         [ret |-> r.ret, bits |-> spi_bits, ops |-> r.ops,
          tx |-> I2cStage(tx_buf, tx),
          calls |-> <<Call("simple_i2c_read", r.ret)>>,
          data |-> IF r.ret < 0 THEN Zeros(n) ELSE d]
    ELSE IF type = TYPE_SPI
    THEN LET f1 == IF spi_9bit THEN spi_send(tx_buf, spi_bits, FALSE, o1)
                   ELSE [ret |-> 0, bits |-> spi_bits, ops |-> <<>>]
             f2 == spi_send(sr.hi.buf, sr.hi.bits, TRUE, o2)
         IN [ret |-> f2.ret, bits |-> f2.bits, tx |-> sr.hi.buf,
             ops |-> f1.ops \o f2.ops,
             calls |-> (IF spi_9bit
                        THEN <<Call("spi_send", f1.ret),
                               Call("store_9bit", sr.st)>>
                        ELSE <<>>)
                       \o <<Call("store_high", sr.hi.ret),
                            Call("spi_send", f2.ret)>>,
             data |-> d]
    ELSE IF generic
    THEN LET r == DsiRead("mipi_dsi_generic_read", tx, n, o1, o2) IN
         [ret |-> 0, bits |-> spi_bits, ops |-> r.ops, tx |-> tx_buf,
          calls |-> <<Call("mipi_dsi_generic_read", r.ret)>>,
          data |-> IF r.ret < 0 THEN Zeros(n) ELSE d]
    ELSE LET r == DsiRead("mipi_dsi_dcs_read", tx, n, o1, o2) IN
         [ret |-> r.ret, bits |-> spi_bits, ops |-> r.ops, tx |-> tx_buf,
          calls |-> <<Call("mipi_dsi_dcs_read", r.ret)>>,
          data |-> IF r.ret < 0 THEN Zeros(n) ELSE d]

ReadRets1 == IF type = TYPE_I2C THEN I2cRets
             ELSE IF type = TYPE_SPI
             THEN (IF spi_9bit /\ spi_bits > 0 THEN SpiRets ELSE {0})
             ELSE {0} \cup DsiReadErrs

ReadRets2(o1) == IF type = TYPE_I2C THEN {0}
                 ELSE IF type = TYPE_SPI THEN SpiRets
                 ELSE IF o1 = -EPROTO THEN {0} \cup DsiReadErrs ELSE {0}

\* what the serial line carries while the command of a read is clocked out
PadBits == IF type = TYPE_SPI THEN {0, 1} ELSE {0}

\* a matching read clears what an earlier one recorded
VerifyClears(readval, matchval, m) == IF readval # matchval THEN -EINVAL ELSE 0

\* "if (readval != matchval) match = -EINVAL;": the new value of match
Verify(readval, matchval, m) == IF readval # matchval THEN -EINVAL ELSE m

\* S_DCS_READ1 .. S_DCS_READ8
StepRead ==
    /\ Running
    /\ length - 1 > 0
    /\ Kind(opcode) = "read"
    /\ LET generic == IsGeneric(opcode)
           len == Low7(opcode) - S_DCS_READ1 + 1
           match_index == IF generic THEN 2 ELSE 1
           c == cmd + 1
           n == length - 1
           e == [Eff0 EXCEPT !.kind = "read", !.generic = generic]
       IN IF skip
          THEN \E of \in FinalRets :
                 Apply(Advance(e, 0, c, n, len + match_index), of)
          ELSE \E oob \in OobBytes :
               \* the dcs read passes cmd[0] only, the others cmd[0..mi-1]
               LET tx == BytesAt(c, IF type = TYPE_MIPI /\ ~generic THEN 1
                                    ELSE match_index, oob)
                   expect == BytesAt(c + match_index, len, oob)
               IN \E sr \in {IF type = TYPE_SPI THEN StageRead(tx, len)
                             ELSE NoStage},
                     d \in ReadData(len), pad \in PadBits :
                  \E rx \in {IF type = TYPE_SPI
                             THEN RxAnswer(d, sr.l, pad,
                                           (sr.hi.bits + 7) \div 8)
                             ELSE <<>>} :
                  \* "extract_data(data, len, panel->rx_buf, l)"
                  \E data \in {IF type = TYPE_SPI
                               THEN extract_data(len, rx, sr.l) ELSE d},
                     o1 \in ReadRets1, of \in FinalRets :
                  \E o2 \in ReadRets2(o1) :
                  \E r \in {DoRead(tx, len, generic, sr, data, o1, o2)} :
                    Apply(Advance([e EXCEPT !.bits = r.bits,
                                     !.ops = r.ops, !.tx = r.tx,
                                     !.calls = r.calls, !.data = r.data,
                                     !.rx = Wire(rx, Cardinality(DOMAIN rx)),
                                     !.mismatch = (r.data # expect),
                                     !.match = Verify(LeValue(r.data),
                                                      LeValue(expect), match)],
                                  r.ret, c, n, len + match_index), of)

\* the sleep is taken with the packed bits still pending
StepDelayNoFlush ==
    /\ Running
    /\ length - 1 > 0
    /\ Kind(opcode) = "delay"
    /\ \E o1 \in (IF type = TYPE_SPI /\ ~skip /\ spi_bits > 0 THEN SpiRets
                  ELSE {0}),
          of \in FinalRets :
         LET f == [ret |-> 0, bits |-> spi_bits, ops |-> <<>>]
             e == [Eff0 EXCEPT !.kind = "delay", !.generic = IsGeneric(opcode)]
             d == IF skip THEN e
                  ELSE [e EXCEPT
                          !.bits = f.bits,
                          !.ops = f.ops \o <<Op("msleep", <<ByteAt(cmd + 1, 0)>>, 0)>>,
                          !.calls = IF type = TYPE_SPI
                                    THEN <<Call("spi_send", f.ret)>> ELSE <<>>]
         IN IF length - 1 <= 1
            THEN Apply([d EXCEPT !.ctl = "break", !.cmd = cmd + 1,
                                 !.length = length - 1, !.skip = skip], of)
            ELSE Apply([d EXCEPT !.cmd = cmd + 2, !.length = length - 2,
                                 !.skip = FALSE], of)

\* S_DELAY
StepDelay ==
    /\ Running
    /\ length - 1 > 0
    /\ Kind(opcode) = "delay"
    /\ \E o1 \in (IF type = TYPE_SPI /\ ~skip /\ spi_bits > 0 THEN SpiRets
                  ELSE {0}),
          of \in FinalRets :
         LET f == IF type = TYPE_SPI THEN spi_send(tx_buf, spi_bits, FALSE, o1)
                  ELSE [ret |-> 0, bits |-> spi_bits, ops |-> <<>>]
             e == [Eff0 EXCEPT !.kind = "delay", !.generic = IsGeneric(opcode)]
             d == IF skip THEN e
                  ELSE [e EXCEPT
                          !.bits = f.bits,
                          !.ops = f.ops \o <<Op("msleep", <<ByteAt(cmd + 1, 0)>>, 0)>>,
                          !.calls = IF type = TYPE_SPI
                                    THEN <<Call("spi_send", f.ret)>> ELSE <<>>]
         IN IF length - 1 <= 1
            THEN Apply([d EXCEPT !.ctl = "break", !.cmd = cmd + 1,
                                 !.length = length - 1, !.skip = skip], of)
            ELSE Apply([d EXCEPT !.cmd = cmd + 2, !.length = length - 2,
                                 !.skip = FALSE], of)

\* ------------------------------------------------------------------------
\* Field patch
\* ------------------------------------------------------------------------

\* panel->dt_mode, the negotiated timing
dt_mode == [hdisplay |-> 800, hsync_start |-> 840, hsync_end |-> 968,
            htotal |-> 1056, vdisplay |-> 480, vsync_start |-> 493,
            vsync_end |-> 496, vtotal |-> 525]

\* a 32-bit unsigned as its bits, least significant first; x is the
\* mathematical value before the wrap (two's complement for x < 0)
U32(x) == [k \in 0..31 |->
             IF k = 31 THEN (IF x < 0 THEN 1 ELSE 0)
             ELSE Bit(IF x < 0 THEN (x + 2147483647) + 1 ELSE x, k)]

\* "cmd[2] | (cmd[3] << 8) | (cmd[4] << 16) | (cmd[5] << 24)"
U32OfBytes(d) == [k \in 0..31 |-> Bit(d[(k \div 8) + 1], k % 8)]

\* the unsigned val a selector stands for (the switch on scmd)
ScmdValue(scmd) ==
    LET dm == dt_mode IN
    IF scmd = S_HSYNC THEN U32(dm.hsync_end - dm.hsync_start)
    ELSE IF scmd = S_HBP THEN U32(dm.htotal - dm.hsync_end)
    ELSE IF scmd = S_HACTIVE THEN U32(dm.hdisplay)
    ELSE IF scmd = S_HFP THEN U32(dm.hsync_start - dm.hdisplay)
    ELSE IF scmd = S_VSYNC THEN U32(dm.vsync_end - dm.vsync_start)
    ELSE IF scmd = S_VBP THEN U32(dm.vtotal - dm.vsync_end)
    ELSE IF scmd = S_VACTIVE THEN U32(dm.vdisplay)
    ELSE IF scmd = S_VFP THEN U32(dm.vsync_start - dm.vdisplay)
    ELSE U32(0)

\* "val >>= n" on a 32-bit unsigned, n < 32
Shr(val, n) == [k \in 0..31 |-> IF k + n <= 31 THEN val[k + n] ELSE 0]

\* "val >>= src_start"; a count of 32 or more is undefined in C: wide is
\* TRUE where the machine shifts everything out, FALSE where it uses the
\* count modulo 32
ShiftRight(val, src_start, wide) ==
    IF src_start < 32 THEN Shr(val, src_start)
    ELSE IF wide THEN U32(0) ELSE Shr(val, src_start % 32)

\* "cmd_buf[i] &= ~(mask << l); cmd_buf[i] |= (val << l);" on one u8
PatchByte(old, mask, val, l) ==
    LET m == (mask * Pow2(l)) % 256
        v(k) == IF k >= l THEN val[k - l] ELSE 0
        b(k) == IF v(k) = 1 THEN 1
                ELSE IF Bit(m, k) = 1 THEN 0 ELSE Bit(old, k)
    IN b(0) + 2 * b(1) + 4 * b(2) + 8 * b(3) + 16 * b(4) + 32 * b(5)
       + 64 * b(6) + 128 * b(7)

\* every byte of the field takes the low bits of val again
RECURSIVE PatchLoopSameVal(_, _, _, _)
PatchLoopSameVal(buf, val, dest_start, dest_len) ==
    IF dest_len = 0 \/ dest_start >= 256 THEN buf
    ELSE LET l == dest_start % 8
             mask == IF dest_len < 8 THEN Pow2(dest_len) - 1 ELSE 255
             i == dest_start \div 8
             step == 8 - l
         IN PatchLoopSameVal([buf EXCEPT ![i] = PatchByte(buf[i], mask, val, l)],
                             val, dest_start + step,
                             IF dest_len >= step THEN dest_len - step ELSE 0)

\* the while (dest_len && dest_start < 256) loop
RECURSIVE PatchLoop(_, _, _, _)
PatchLoop(buf, val, dest_start, dest_len) ==
    IF dest_len = 0 \/ dest_start >= 256 THEN buf
    ELSE LET l == dest_start % 8
             mask == IF dest_len < 8 THEN Pow2(dest_len) - 1 ELSE 255
             i == dest_start \div 8
             step == 8 - l
         IN PatchLoop([buf EXCEPT ![i] = PatchByte(buf[i], mask, val, l)],
                      Shr(val, step), dest_start + step,
                      IF dest_len >= step THEN dest_len - step ELSE 0)

\* the loop goes on behind bit 255
RECURSIVE PatchTopUnguarded(_, _)
PatchTopUnguarded(dest_start, dest_len) ==
    IF dest_len = 0 THEN -1
    ELSE LET step == 8 - (dest_start % 8)
             rest == PatchTopUnguarded(dest_start + step,
                                       IF dest_len >= step
                                       THEN dest_len - step ELSE 0)
         IN IF rest > dest_start \div 8 THEN rest ELSE dest_start \div 8

\* the highest index "dest_start >> 3" at which the loop writes cmd_buf,
\* -1 when it writes nothing
RECURSIVE PatchTop(_, _)
PatchTop(dest_start, dest_len) ==
    IF dest_len = 0 \/ dest_start >= 256 THEN -1
    ELSE LET step == 8 - (dest_start % 8)
             rest == PatchTop(dest_start + step,
                              IF dest_len >= step
                              THEN dest_len - step ELSE 0)
         IN IF rest > dest_start \div 8 THEN rest ELSE dest_start \div 8

\* S_CONST .. S_VFP; not guarded by skip
StepPatch ==
    /\ Running
    /\ length - 1 > 0
    /\ Kind(opcode) = "patch"
    /\ \E oob \in OobBytes, wide \in BOOLEAN, of \in FinalRets :
         LET scmd == Low7(opcode)
             c == cmd + 1
             dest_start == ByteAt(c, oob)
             dest_len == ByteAt(c + 1, oob)
             src_start == IF scmd = S_CONST THEN 0 ELSE ByteAt(c + 2, oob)
             len == IF scmd = S_CONST THEN 6 ELSE 3
             val0 == IF scmd = S_CONST THEN U32OfBytes(BytesAt(c + 2, 4, oob))
                     ELSE ScmdValue(scmd)
             val == ShiftRight(val0, src_start, wide)
             e == [Eff0 EXCEPT !.kind = "patch", !.generic = IsGeneric(opcode),
                     !.buf = PatchLoop(cmd_buf, val, dest_start, dest_len),
                     !.val = val, !.top = PatchTop(dest_start, dest_len)]
         IN Apply(Advance(e, 0, c, length - 1, len), of)

\* an opcode of none of the ranges is passed over
StepUnknownPassed ==
    /\ Running
    /\ length - 1 > 0
    /\ Kind(opcode) = "unknown"
    /\ Apply([Eff0 EXCEPT !.cmd = cmd + 1, !.length = length - 1,
                          !.skip = FALSE, !.kind = "unknown",
                          !.unknown = TRUE], 0)

\* none of the ranges: "match = -EINVAL; break;"
StepUnknown ==
    /\ Running
    /\ length - 1 > 0
    /\ Kind(opcode) = "unknown"
    /\ \E of \in FinalRets :
         Apply([Eff0 EXCEPT !.ctl = "break", !.cmd = cmd + 1,
                            !.length = length - 1, !.skip = skip,
                            !.match = -EINVAL, !.kind = "unknown",
                            !.unknown = TRUE], of)

\* ------------------------------------------------------------------------
\* send_all_cmd_lists and the entry of send_cmd_list
\* ------------------------------------------------------------------------

\* the accumulator is reset before the stream is looked at
EnterResetsFirst(t) ==
    IF Len(msc[t]) = 0
    THEN /\ ret' = 0
         /\ stage' = NextStage(t)
         /\ runs' = Append(runs, [type |-> t, ret |-> 0])
         /\ spi_bits' = 0
         /\ UNCHANGED <<type, cmd, length, skip, match, cmd_buf,
                        lpm, last, seen>>
    ELSE /\ type' = t
         /\ cmd' = 0
         /\ length' = Len(msc[t])
         /\ skip' = FALSE
         /\ match' = 0
         /\ \E g \in GarbageBytes : cmd_buf' = [k \in 0..(CMD_BUF_SIZE - 1) |-> g]
         /\ spi_bits' = 0
         /\ lpm' = TRUE
         /\ last' = NoLast
         /\ seen' = NoSeen
         /\ UNCHANGED <<ret, stage, runs>>

\* the accumulator keeps what the run before left in it
EnterKeepsBits(t) ==
    IF Len(msc[t]) = 0
    THEN /\ ret' = 0
         /\ stage' = NextStage(t)
         /\ runs' = Append(runs, [type |-> t, ret |-> 0])
         /\ UNCHANGED <<type, cmd, length, skip, match, cmd_buf, spi_bits,
                        lpm, last, seen>>
    ELSE /\ type' = t
         /\ cmd' = 0
         /\ length' = Len(msc[t])
         /\ skip' = FALSE
         /\ match' = 0
         /\ \E g \in GarbageBytes : cmd_buf' = [k \in 0..(CMD_BUF_SIZE - 1) |-> g]
         /\ spi_bits' = spi_bits
         /\ lpm' = TRUE
         /\ last' = NoLast
         /\ seen' = NoSeen
         /\ UNCHANGED <<ret, stage, runs>>

\* send_cmd_list(panel, &msc->t, t, id) up to the first loop iteration:
\* an absent or empty stream returns 0 at once, otherwise the accumulator is
\* reset and the low-power flag set; cmd_buf is an uninitialised local
Enter(t) ==
    IF Len(msc[t]) = 0
    THEN /\ ret' = 0
         /\ stage' = NextStage(t)
         /\ runs' = Append(runs, [type |-> t, ret |-> 0])
         /\ UNCHANGED <<type, cmd, length, skip, match, cmd_buf, spi_bits,
                        lpm, last, seen>>
    ELSE /\ type' = t
         /\ cmd' = 0
         /\ length' = Len(msc[t])
         /\ skip' = FALSE
         /\ match' = 0
         /\ \E g \in GarbageBytes : cmd_buf' = [k \in 0..(CMD_BUF_SIZE - 1) |-> g]
         /\ spi_bits' = 0
         /\ lpm' = TRUE
         /\ last' = NoLast
         /\ seen' = NoSeen
         /\ UNCHANGED <<ret, stage, runs>>

\* "if (panel->i2c) ret = send_cmd_list(panel, &msc->i2c, TYPE_I2C, ...)"
CallI2c ==
    /\ stage = "i2c" /\ ~Running
    /\ IF i2c THEN Enter(TYPE_I2C)
       ELSE /\ stage' = "mipi"
            /\ UNCHANGED <<ret, runs, type, cmd, length, skip, match, cmd_buf,
                           spi_bits, lpm, last, seen>>
    /\ UNCHANGED <<i2c, spi, spi_9bit, lanes, msc, tx_buf, log, lifeVars, pk>>

\* "if (!ret) ret = send_cmd_list(panel, &msc->mipi, TYPE_MIPI, ...)"
CallMipi ==
    /\ stage = "mipi" /\ ~Running
    /\ IF ret = 0 THEN Enter(TYPE_MIPI)
       ELSE /\ stage' = "spi"
            /\ UNCHANGED <<ret, runs, type, cmd, length, skip, match, cmd_buf,
                           spi_bits, lpm, last, seen>>
    /\ UNCHANGED <<i2c, spi, spi_9bit, lanes, msc, tx_buf, log, lifeVars, pk>>

\* the serial stream is run whatever the earlier streams returned
CallSpiAlways ==
    /\ stage = "spi" /\ ~Running
    /\ IF spi THEN Enter(TYPE_SPI)
       ELSE /\ stage' = "ret"
            /\ UNCHANGED <<ret, runs, type, cmd, length, skip, match, cmd_buf,
                           spi_bits, lpm, last, seen>>
    /\ UNCHANGED <<i2c, spi, spi_9bit, lanes, msc, tx_buf, log, lifeVars, pk>>

\* "if (!ret && panel->spi) ret = send_cmd_list(panel, &msc->spi, ...)"
CallSpi ==
    /\ stage = "spi" /\ ~Running
    /\ IF ret = 0 /\ spi THEN Enter(TYPE_SPI)
       ELSE /\ stage' = "ret"
            /\ UNCHANGED <<ret, runs, type, cmd, length, skip, match, cmd_buf,
                           spi_bits, lpm, last, seen>>
    /\ UNCHANGED <<i2c, spi, spi_9bit, lanes, msc, tx_buf, log, lifeVars, pk>>

\* ------------------------------------------------------------------------
\* Command streams the model runs
\* ------------------------------------------------------------------------

I_W0 == <<0>>                                \* direct write of no byte
I_W1 == <<1, 3>>                             \* direct write of [0x03]
I_W2 == <<2, 1, 2>>                          \* direct write of [0x01,0x02]
I_W3 == <<3, 7, 8, 9>>                       \* direct write of three bytes
I_GW1 == <<129, 41>>                         \* generic write of one byte
I_LWBIG == <<S_DCS_LENGTH, TX_BUF_SIZE + 1>> \o Zeros(TX_BUF_SIZE + 1)
\* a write of the 56 bytes that fill the transmit buffer in 9-bit framing
I_LWFULL == <<S_DCS_LENGTH, 56>> \o Zeros(56)
I_BW == <<S_DCS_BUF, 2>>                     \* send two bytes of cmd_buf
I_MRPS == <<S_MRPS, 4>>
I_RD2 == <<S_DCS_READ1 + 1, 10, 15, 14>>     \* read 2, expect 0x0e0f
I_GRD1 == <<128 + S_DCS_READ1, 10, 0, 15>>   \* generic read 1, expect 0x0f
I_DL == <<S_DELAY, 5>>
I_LG2 == <<S_IF_1_LANE + 1>>
I_LG4 == <<S_IF_4_LANES>>
I_FP == <<S_CONST, 4, 12, 188, 10, 0, 0>>    \* 12 bits at bit 4 := 0xabc
I_FPH == <<S_CONST, 4, 2, 255, 0, 0, 0>>     \* 2 bits at bit 4 := 0xff
I_UNK == <<127, 0>>

Alphabet == {I_W0, I_W1, I_W2, I_GW1, I_LWBIG, I_BW, I_MRPS, I_RD2, I_GRD1,
             I_DL, I_LG2, I_LG4, I_FP, I_UNK}

RECURSIVE Concats(_)
Concats(k) == IF k = 0 THEN {<<>>}
              ELSE LET S == Concats(k - 1) IN
                   S \cup {s \o a : s \in S, a \in Alphabet}

Cuts(s) == {SubSeq(s, 1, Len(s) - j) : j \in 0..Min(MaxCut, Len(s))}

\* two lane gates in a row, the instruction they guard and one more
GateStreams == {g \o h \o a \o I_W1 : g \in {I_LG2, I_LG4}, h \in {I_LG2, I_LG4},
                                      a \in {I_W1, I_MRPS, I_FP, I_RD2}}

\* streams of three instructions taken from the examples of the design
Examples == {I_W2 \o I_DL \o I_W1, I_RD2 \o I_W1 \o I_RD2,
             I_W1 \o I_W2 \o I_DL, I_FPH \o I_BW,
             I_W3 \o I_GRD1, I_LWFULL \o I_W1 \o I_RD2,
             I_LG2 \o I_FP \o I_BW}
            \cup {I_LG2 \o a \o I_W1 : a \in Alphabet}
            \cup GateStreams

\* instructions that lead a stream of more than two instructions
Core == {I_W1}

RECURSIVE Heads(_)
Heads(k) == IF k <= 0 THEN {<<>>}
            ELSE LET S == Heads(k - 1) IN S \cup {c \o s : c \in Core, s \in S}

\* any two instructions, behind at most MaxInstr - 2 leading ones, cut short
\* by up to MaxCut bytes
Streams == UNION {Cuts(h \o s) : h \in Heads(MaxInstr - 2), s \in Concats(2)}
           \cup Examples

SmallStreams == {<<>>, I_W1, I_RD2}

\* one transport with any stream, or all three with short streams; the
\* probe reads the i2c and spi streams only when the handle exists
Phases ==
    {[i2c |-> IF t = TYPE_I2C THEN s ELSE <<>>,
      mipi |-> IF t = TYPE_MIPI THEN s ELSE <<>>,
      spi |-> IF t = TYPE_SPI THEN s ELSE <<>>] :
        t \in {TYPE_I2C, TYPE_MIPI, TYPE_SPI}, s \in Streams}
    \cup [i2c : SmallStreams, mipi : SmallStreams, spi : SmallStreams]

Rich(m) == \E t \in {TYPE_I2C, TYPE_MIPI, TYPE_SPI} : m[t] \notin SmallStreams

\* no command list of a phase
NoCmds == [i2c |-> <<>>, mipi |-> <<>>, spi |-> <<>>]

\* no lifecycle call has returned yet; seq alternates from call to call
NoCall == [fn |-> "none", ret |-> 0, noop |-> FALSE, seq |-> 0]

\* desc->delay, in milliseconds
NoDelay == [prepare |-> 0, enable |-> 0, disable |-> 0, unprepare |-> 0]

\* send_all_cmd_lists on its own: no lifecycle call is in progress
NoLife ==
    /\ prepared = FALSE
    /\ enabled = FALSE
    /\ supply = 0
    /\ gpd_prepare_enable = NoLine
    /\ reset = NoLine
    /\ backlight = "absent"
    /\ cmds = [init |-> NoCmds, enable |-> NoCmds, disable |-> NoCmds]
    /\ desc = [delay |-> NoDelay]
    /\ pc = "none"
    /\ called = NoCall

\* no call has been made on the packer
NoPack == [kind |-> "none", i |-> 0, p |-> <<>>, ret |-> 0, nflush |-> 0,
           n |-> 0, s |-> 0, out |-> <<>>, calls |-> 0, high |-> 0]

Init ==
    /\ msc \in Phases
    /\ i2c \in BOOLEAN
    /\ spi \in BOOLEAN
    /\ Len(msc.i2c) > 0 => i2c
    /\ Len(msc.spi) > 0 => spi
    /\ Rich(msc) => /\ i2c = (Len(msc.i2c) > 0)
                    /\ spi = (Len(msc.spi) > 0)
    /\ spi_9bit \in (IF spi THEN BOOLEAN ELSE {FALSE})
    \* a run that ends with a failure can leave packed bits behind in
    \* 9-bit framing; the accumulator is 0 after the probe
    /\ spi_bits \in (IF spi_9bit THEN {0, 9} ELSE {0})
    /\ tx_buf = Store9At([k \in 0..(TX_BUF_SIZE - 1) |-> 0], 0,
                         IF spi_bits = 9 THEN <<3>> ELSE <<>>)
    /\ lanes = 4
    /\ lpm = FALSE
    /\ stage = "i2c"
    /\ ret = 0
    /\ type = "none"
    /\ cmd = 0
    /\ length = 0
    /\ skip = FALSE
    /\ match = 0
    /\ cmd_buf = [k \in 0..(CMD_BUF_SIZE - 1) |-> 0]
    /\ log = <<>>
    /\ last = NoLast
    /\ seen = NoSeen
    /\ runs = <<>>
    /\ NoLife
    /\ pk = NoPack

Next ==
    \/ CallI2c
    \/ CallMipi
    \/ CallSpi
    \/ StepEnd
    \/ StepLane
    \/ StepWrite
    \/ StepMrps
    \/ StepRead
    \/ StepDelay
    \/ StepPatch
    \/ StepUnknown

Spec == Init /\ [][Next]_vars

\* the example streams, and two streams cut short
LiveStreams == Examples \cup Cuts(I_W1 \o I_RD2) \cup Cuts(I_DL \o I_UNK)

\* send_all_cmd_lists on these streams, one transport at a time
LiveInit ==
    /\ Init
    /\ \E t \in {TYPE_I2C, TYPE_MIPI, TYPE_SPI} : msc[t] \in LiveStreams

\* every call of the transport returns, so the step that is enabled is
\* eventually taken
LiveSpec == LiveInit /\ [][Next]_vars /\ WF_vars(Next)

TypeOK ==
    /\ stage \in {"i2c", "mipi", "spi", "ret"}
    /\ type \in {"none", TYPE_I2C, TYPE_MIPI, TYPE_SPI}
    /\ spi_bits \in 0..(TX_BUF_SIZE * 8)
    /\ length >= 0
    /\ ret <= 0

\* ------------------------------------------------------------------------
\* The 9-bit packer on its own: store_9bit, spi_send and extract_data
\* applied to inputs drawn from bounded sets
\* ------------------------------------------------------------------------

\* number of store_9bit calls of a behaviour
MaxPacks == 2

\* payload lengths: none, few, one that ends on a byte boundary, and
\* around the 56 bytes the buffer holds
PackLens == {0, 1, 2, 8, 55, 56, 57}

PackSeeds == {3, 200}

\* l payload bytes that differ from each other
Pattern(l, seed) == [k \in 1..l |-> (seed + 37 * (k - 1)) % 256] \o <<>>

\* the transfers a packer call issues, as entries of log
PackOps(ops) == [k \in 1..Len(ops) |-> [op |-> ops[k].op, arg |-> ops[k].arg,
                                        ret |-> ops[k].ret, tx |-> ops[k].tx,
                                        by |-> TYPE_SPI]]

PackInit ==
    /\ msc = NoCmds
    /\ i2c = FALSE
    /\ spi = TRUE
    /\ spi_9bit = TRUE
    /\ spi_bits = 0
    /\ \E g \in GarbageBytes : tx_buf = [k \in 0..(TX_BUF_SIZE - 1) |-> g]
    /\ lanes = 4
    /\ lpm = FALSE
    /\ stage = "ret"
    /\ ret = 0
    /\ type = "none"
    /\ cmd = 0
    /\ length = 0
    /\ skip = FALSE
    /\ match = 0
    /\ cmd_buf = [k \in 0..(CMD_BUF_SIZE - 1) |-> 0]
    /\ log = <<>>
    /\ last = NoLast
    /\ seen = NoSeen
    /\ runs = <<>>
    /\ NoLife
    /\ pk = NoPack

PackFrame == UNCHANGED <<i2c, spi, spi_9bit, lanes, msc, lpm, stage, ret, type,
                         cmd, length, skip, match, cmd_buf, last, seen, runs,
                         lifeVars>>

\* store_9bit(panel, p, l); store_high is only ever followed by the transfer
\* and the extraction of a Read, and extract_data leaves the packer as it
\* was, so the calls go on from the state before it
PackCall ==
    /\ pk.calls < MaxPacks
    /\ pk.high = 0
    /\ pk.kind # "extract"
    /\ \E l \in PackLens, seed \in PackSeeds, o \in SpiRets :
       \E p \in {Pattern(l, seed)} :
       \E r \in {store_9bit(tx_buf, spi_bits, p, o)} :
          /\ tx_buf' = r.buf
          /\ spi_bits' = r.bits
          /\ log' = log \o PackOps(r.ops)
          /\ pk' = [kind |-> "pack", i |-> spi_bits, p |-> p, ret |-> r.ret,
                    nflush |-> Len(r.ops), n |-> 0, s |-> 0, out |-> <<>>,
                    calls |-> pk.calls + 1, high |-> 0]
    /\ PackFrame

\* spi_send(panel, 0)
FlushCall ==
    /\ pk.kind = "pack"
    /\ \E o \in SpiRets :
       \E r \in {spi_send(tx_buf, spi_bits, FALSE, o)} :
          /\ spi_bits' = r.bits
          /\ log' = log \o PackOps(r.ops)
          /\ pk' = [kind |-> "flush", i |-> spi_bits, p |-> <<>>,
                    ret |-> r.ret, nflush |-> Len(r.ops), n |-> 0, s |-> 0,
                    out |-> <<>>, calls |-> pk.calls, high |-> 0]
    /\ UNCHANGED tx_buf
    /\ PackFrame

\* bytes a Read asks for: "store_high(panel, len * 8)"
HighLens == {1, 2, 8}

\* store_high(panel, n * 8) behind the bits store_9bit packed
HighCall ==
    /\ pk.kind = "pack"
    /\ pk.ret = 0
    /\ \E n \in HighLens :
       \E r \in {store_high(tx_buf, spi_bits, n * 8)} :
          /\ tx_buf' = r.buf
          /\ spi_bits' = r.bits
          /\ pk' = [pk EXCEPT !.kind = "high", !.ret = r.ret, !.nflush = 0,
                              !.high = r.bits - spi_bits]
    /\ UNCHANGED log
    /\ PackFrame

\* start bits of an extraction: on and off a byte boundary, at the start
\* and the end of the buffer
ExtractStarts == {3, 8, 495}

\* the extractions made on the transmit buffer: <<n, s>>.  Behind
\* store_9bit as many bytes as were packed from bit 0, one byte from behind
\* the marker bit of a group, counted back from the end of the packed
\* bits, and one or two bytes from the start bits above; behind store_high
\* the bytes it appended
ExtractArgs ==
    IF pk.kind = "high"
    THEN {<<pk.high \div 8, spi_bits - pk.high>>}
    ELSE {<<Len(pk.p), 0>>}
         \cup {<<1, spi_bits - 9 * k + 1>> : k \in 1..Len(pk.p)}
         \cup {a \in {1, 2} \X ExtractStarts :
                   a[2] + 8 * a[1] <= TX_BUF_SIZE * 8}

\* extract_data(dst, n, buf, s)
ExtractCall ==
    /\ pk.kind \in {"pack", "high"}
    /\ pk.ret = 0
    /\ \E a \in ExtractArgs :
          pk' = [pk EXCEPT !.kind = "extract", !.n = a[1], !.s = a[2],
                           !.out = extract_data(a[1], tx_buf, a[2])]
    /\ UNCHANGED <<tx_buf, spi_bits, log>>
    /\ PackFrame

PackNext ==
    \/ PackCall
    \/ FlushCall
    \/ HighCall
    \/ ExtractCall

PackSpec == PackInit /\ [][PackNext]_vars

\* ------------------------------------------------------------------------
\* The lifecycle: panel_simple_prepare, _enable, _disable and _unprepare,
\* called in any order, each running send_all_cmd_lists on its phase
\* ------------------------------------------------------------------------

\* regulator_enable: 0 or a negative errno
RegRets == {0, -EIO}

\* the command lists of a panel: one with commands in every phase, and one
\* with an enable list that cannot succeed and no other commands
LifeCmds ==
    {[init |-> [i2c |-> <<>>, mipi |-> I_W1, spi |-> I_W1 \o I_DL],
      enable |-> [i2c |-> <<>>, mipi |-> I_LG4 \o I_FP \o I_MRPS, spi |-> <<>>],
      disable |-> [i2c |-> <<>>, mipi |-> I_GRD1, spi |-> I_W0]],
     [init |-> NoCmds,
      enable |-> [i2c |-> <<>>, mipi |-> I_UNK, spi |-> <<>>],
      disable |-> NoCmds]}

LifeDelays ==
    {NoDelay, [prepare |-> 20, enable |-> 30, disable |-> 40, unprepare |-> 50]}

\* an operation of a lifecycle handler, as an entry of log
PanelOp(name, arg, r) ==
    [op |-> name, arg |-> arg, ret |-> r, tx |-> <<>>, by |-> "panel"]

\* "if (d) msleep(d);"
Sleep(d) == IF d # 0 THEN <<PanelOp("msleep", <<d>>, 0)>> ELSE <<>>

\* "if (line) gpiod_set_value_cansleep(line, v);"
SetLine(line, name, v) ==
    IF line # NoLine THEN <<PanelOp(name, <<v>>, 0)>> ELSE <<>>

\* the value of a line after that statement
LineAt(line, v) == IF line # NoLine THEN v ELSE NoLine

\* "if (p->backlight) { ...; backlight_update_status(p->backlight); }"
SetBacklight(v) ==
    IF backlight # "absent" THEN <<PanelOp("backlight_update_status", <<v>>, 0)>>
    ELSE <<>>

\* the state after panel_simple_probe: reset requested high, prepare-enable
\* requested low, the backlight as the platform left it
LifeInit ==
    /\ cmds \in LifeCmds
    /\ desc \in [delay : LifeDelays]
    /\ i2c = (Len(cmds.init.i2c) > 0)
    /\ spi = (Len(cmds.init.spi) > 0)
    /\ spi_9bit \in (IF spi THEN BOOLEAN ELSE {FALSE})
    /\ spi_bits = 0
    /\ tx_buf = [k \in 0..(TX_BUF_SIZE - 1) |-> 0]
    /\ prepared = FALSE
    /\ enabled = FALSE
    /\ supply = 0
    /\ gpd_prepare_enable \in {NoLine, 0}
    /\ reset \in {NoLine, 1}
    /\ backlight \in {"absent", "off"}
    /\ pc = "idle"
    /\ called = NoCall
    /\ msc = NoCmds
    /\ lanes = 4
    /\ lpm = FALSE
    /\ stage = "ret"
    /\ ret = 0
    /\ type = "none"
    /\ cmd = 0
    /\ length = 0
    /\ skip = FALSE
    /\ match = 0
    /\ cmd_buf = [k \in 0..(CMD_BUF_SIZE - 1) |-> 0]
    /\ log = <<>>
    /\ last = NoLast
    /\ seen = NoSeen
    /\ runs = <<>>
    /\ pk = NoPack

\* the handler returns r; noop tells that it returned at its first test
Return(fn, r, noop) ==
    /\ pc' = "idle"
    /\ called' = [fn |-> fn, ret |-> r, noop |-> noop, seq |-> 1 - called.seq]

\* the handler calls send_all_cmd_lists(p, m)
StartPhase(fn, m) ==
    /\ pc' = fn
    /\ msc' = m
    /\ stage' = "i2c"
    /\ ret' = 0
    /\ type' = "none"
    /\ last' = NoLast
    /\ seen' = NoSeen
    /\ runs' = <<>>
    /\ UNCHANGED called

\* what a handler leaves alone whatever path it takes
LifeFrame == UNCHANGED <<i2c, spi, spi_9bit, lanes, spi_bits, tx_buf, lpm, cmd,
                         length, skip, match, cmd_buf, cmds, desc, pk>>

\* what a handler leaves alone when it does not call send_all_cmd_lists
NoPhase == UNCHANGED <<msc, stage, ret, type, last, seen, runs>>

\* panel_simple_prepare up to the call of send_all_cmd_lists
PrepareBegin ==
    /\ pc = "idle"
    /\ IF prepared
       THEN /\ Return("prepare", 0, TRUE)
            /\ log' = <<>>
            /\ NoPhase
            /\ UNCHANGED <<supply, gpd_prepare_enable, reset>>
       ELSE \E err \in RegRets :
            IF err < 0
            THEN /\ Return("prepare", err, FALSE)
                 /\ log' = <<PanelOp("regulator_enable", <<>>, err)>>
                 /\ NoPhase
                 /\ UNCHANGED <<supply, gpd_prepare_enable, reset>>
            ELSE /\ supply' = supply + 1
                 /\ gpd_prepare_enable' = LineAt(gpd_prepare_enable, 1)
                 /\ reset' = LineAt(reset, 0)
                 /\ log' = <<PanelOp("regulator_enable", <<>>, err)>>
                           \o SetLine(gpd_prepare_enable, "gpiod_set_value(prepare-enable)", 1)
                           \o SetLine(reset, "gpiod_set_value(reset)", 0)
                           \o Sleep(desc.delay.prepare)
                 /\ StartPhase("prepare", cmds.init)
    /\ UNCHANGED <<prepared, enabled, backlight>>
    /\ LifeFrame

\* the regulator stays enabled when the init phase failed
PrepareEndKeeps ==
    /\ pc = "prepare"
    /\ stage = "ret"
    /\ prepared' = (ret = 0)
    /\ Return("prepare", ret, FALSE)
    /\ NoPhase
    /\ UNCHANGED <<supply, log, enabled, gpd_prepare_enable, reset, backlight>>
    /\ LifeFrame

\* panel_simple_prepare from the return of send_all_cmd_lists on
PrepareEnd ==
    /\ pc = "prepare"
    /\ stage = "ret"
    /\ IF ret # 0
       THEN /\ supply' = supply - 1
            /\ log' = log \o <<PanelOp("regulator_disable", <<>>, 0)>>
            /\ UNCHANGED prepared
       ELSE /\ prepared' = TRUE
            /\ UNCHANGED <<supply, log>>
    /\ Return("prepare", ret, FALSE)
    /\ NoPhase
    /\ UNCHANGED <<enabled, gpd_prepare_enable, reset, backlight>>
    /\ LifeFrame

\* panel_simple_enable up to the call of send_all_cmd_lists
EnableBegin ==
    /\ pc = "idle"
    /\ IF enabled
       THEN /\ Return("enable", 0, TRUE)
            /\ NoPhase
       ELSE StartPhase("enable", cmds.enable)
    /\ log' = <<>>
    /\ UNCHANGED <<prepared, enabled, supply, gpd_prepare_enable, reset,
                   backlight>>
    /\ LifeFrame

\* the backlight is switched on whatever send_all_cmd_lists returned
EnableEndBlind ==
    /\ pc = "enable"
    /\ stage = "ret"
    /\ log' = log \o Sleep(desc.delay.enable) \o SetBacklight(FB_BLANK_UNBLANK)
    /\ backlight' = (IF backlight # "absent" THEN "on" ELSE "absent")
    /\ enabled' = TRUE
    /\ Return("enable", 0, FALSE)
    /\ NoPhase
    /\ UNCHANGED <<prepared, supply, gpd_prepare_enable, reset>>
    /\ LifeFrame

\* panel_simple_enable from the return of send_all_cmd_lists on
EnableEnd ==
    /\ pc = "enable"
    /\ stage = "ret"
    /\ IF ret < 0
       THEN /\ reset' = LineAt(reset, 1)
            /\ gpd_prepare_enable' = LineAt(gpd_prepare_enable, 0)
            /\ log' = log \o SetLine(reset, "gpiod_set_value(reset)", 1)
                          \o SetLine(gpd_prepare_enable, "gpiod_set_value(prepare-enable)", 0)
            /\ UNCHANGED <<enabled, backlight>>
       ELSE /\ log' = log \o Sleep(desc.delay.enable) \o SetBacklight(FB_BLANK_UNBLANK)
            /\ backlight' = (IF backlight # "absent" THEN "on" ELSE "absent")
            /\ enabled' = TRUE
            /\ UNCHANGED <<reset, gpd_prepare_enable>>
    /\ Return("enable", ret, FALSE)
    /\ NoPhase
    /\ UNCHANGED <<prepared, supply>>
    /\ LifeFrame

\* panel_simple_disable up to the call of send_all_cmd_lists
DisableBegin ==
    /\ pc = "idle"
    /\ IF ~enabled
       THEN /\ Return("disable", 0, TRUE)
            /\ log' = <<>>
            /\ NoPhase
            /\ UNCHANGED backlight
       ELSE /\ backlight' = (IF backlight # "absent" THEN "off" ELSE "absent")
            /\ log' = SetBacklight(FB_BLANK_POWERDOWN) \o Sleep(desc.delay.disable)
            /\ StartPhase("disable", cmds.disable)
    /\ UNCHANGED <<prepared, enabled, supply, gpd_prepare_enable, reset>>
    /\ LifeFrame

\* the panel stays enabled when send_all_cmd_lists failed
DisableEndChecked ==
    /\ pc = "disable"
    /\ stage = "ret"
    /\ enabled' = (ret # 0)
    /\ Return("disable", ret, FALSE)
    /\ NoPhase
    /\ UNCHANGED <<prepared, supply, gpd_prepare_enable, reset, backlight,
                   log>>
    /\ LifeFrame

\* panel_simple_disable from the return of send_all_cmd_lists on: the
\* result of the phase is dropped
DisableEnd ==
    /\ pc = "disable"
    /\ stage = "ret"
    /\ enabled' = FALSE
    /\ Return("disable", 0, FALSE)
    /\ NoPhase
    /\ UNCHANGED <<prepared, supply, gpd_prepare_enable, reset, backlight,
                   log>>
    /\ LifeFrame

\* the panel is powered down without a look at p->prepared
UnprepareAlways ==
    /\ pc = "idle"
    /\ reset' = LineAt(reset, 1)
    /\ gpd_prepare_enable' = LineAt(gpd_prepare_enable, 0)
    /\ supply' = supply - 1
    /\ prepared' = FALSE
    /\ log' = Sleep(desc.delay.unprepare)
              \o SetLine(reset, "gpiod_set_value(reset)", 1)
              \o SetLine(gpd_prepare_enable,
                         "gpiod_set_value(prepare-enable)", 0)
              \o <<PanelOp("regulator_disable", <<>>, 0)>>
    /\ Return("unprepare", 0, FALSE)
    /\ NoPhase
    /\ UNCHANGED <<enabled, backlight>>
    /\ LifeFrame

\* prepare-enable is deasserted before reset is asserted
UnprepareEnableFirst ==
    /\ pc = "idle"
    /\ IF ~prepared
       THEN /\ Return("unprepare", 0, TRUE)
            /\ log' = <<>>
            /\ UNCHANGED <<prepared, supply, gpd_prepare_enable, reset>>
       ELSE /\ reset' = LineAt(reset, 1)
            /\ gpd_prepare_enable' = LineAt(gpd_prepare_enable, 0)
            /\ supply' = supply - 1
            /\ prepared' = FALSE
            /\ log' = Sleep(desc.delay.unprepare)
                      \o SetLine(gpd_prepare_enable,
                                 "gpiod_set_value(prepare-enable)", 0)
                      \o SetLine(reset, "gpiod_set_value(reset)", 1)
                      \o <<PanelOp("regulator_disable", <<>>, 0)>>
            /\ Return("unprepare", 0, FALSE)
    /\ NoPhase
    /\ UNCHANGED <<enabled, backlight>>
    /\ LifeFrame

\* panel_simple_unprepare
Unprepare ==
    /\ pc = "idle"
    /\ IF ~prepared
       THEN /\ Return("unprepare", 0, TRUE)
            /\ log' = <<>>
            /\ UNCHANGED <<prepared, supply, gpd_prepare_enable, reset>>
       ELSE /\ reset' = LineAt(reset, 1)
            /\ gpd_prepare_enable' = LineAt(gpd_prepare_enable, 0)
            /\ supply' = supply - 1
            /\ prepared' = FALSE
            /\ log' = Sleep(desc.delay.unprepare)
                      \o SetLine(reset, "gpiod_set_value(reset)", 1)
                      \o SetLine(gpd_prepare_enable, "gpiod_set_value(prepare-enable)", 0)
                      \o <<PanelOp("regulator_disable", <<>>, 0)>>
            /\ Return("unprepare", 0, FALSE)
    /\ NoPhase
    /\ UNCHANGED <<enabled, backlight>>
    /\ LifeFrame

LifeNext ==
    \/ PrepareBegin
    \/ PrepareEnd
    \/ EnableBegin
    \/ EnableEnd
    \/ DisableBegin
    \/ DisableEnd
    \/ Unprepare
    \/ CallI2c
    \/ CallMipi
    \/ CallSpi
    \/ StepEnd
    \/ StepLane
    \/ StepWrite
    \/ StepMrps
    \/ StepRead
    \/ StepDelay
    \/ StepPatch
    \/ StepUnknown

LifeSpec == LifeInit /\ [][LifeNext]_vars

\* ------------------------------------------------------------------------
\* The field patcher on its own: send_cmd_list on the command interface
\* with a stream of one FieldPatch, its operands drawn from bounded sets,
\* and one BufferedWrite that sends the staged buffer
\* ------------------------------------------------------------------------

\* dest_start: in the first bytes, byte-aligned or not, and at the end of
\* the 256 bits
PatchStarts == {0, 4, 7, 8, 13, 247, 248, 250, 255}

\* dest_len: within a byte, across bytes, the 32 bits of val, and beyond
PatchFieldLens == {0, 1, 4, 8, 9, 12, 32, 33, 64, 255}

\* src_start of a computed source: below and from the width of val on
PatchShifts == {0, 3, 32, 40}

\* the literal of an S_CONST patch, least significant byte first
PatchConsts == {<<188, 10, 0, 0>>, <<255, 255, 255, 255>>}

\* the length byte of the BufferedWrite
BufLens == {2, 32, 255}

\* the selectors of the computed sources
PatchScmds == S_HSYNC..S_VFP

PatchStreams ==
    {<<S_CONST, ds, dl>> \o c \o <<S_DCS_BUF, n>> :
        ds \in PatchStarts, dl \in PatchFieldLens, c \in PatchConsts,
        n \in BufLens}
    \cup {<<sc[1], ds, dl, sc[2], S_DCS_BUF, n>> :
        sc \in PatchScmds \X PatchShifts, ds \in PatchStarts,
        dl \in PatchFieldLens, n \in BufLens}

\* a panel on the command interface only, before send_all_cmd_lists reaches
\* the stream
PatchInit ==
    /\ \E s \in PatchStreams : msc = [i2c |-> <<>>, mipi |-> s, spi |-> <<>>]
    /\ i2c = FALSE
    /\ spi = FALSE
    /\ spi_9bit = FALSE
    /\ spi_bits = 0
    /\ tx_buf = [k \in 0..(TX_BUF_SIZE - 1) |-> 0]
    /\ lanes = 4
    /\ lpm = FALSE
    /\ stage = "mipi"
    /\ ret = 0
    /\ type = "none"
    /\ cmd = 0
    /\ length = 0
    /\ skip = FALSE
    /\ match = 0
    /\ cmd_buf = [k \in 0..(CMD_BUF_SIZE - 1) |-> 0]
    /\ log = <<>>
    /\ last = NoLast
    /\ seen = NoSeen
    /\ runs = <<>>
    /\ NoLife
    /\ pk = NoPack

PatchNext ==
    \/ CallMipi
    \/ StepPatch
    \/ StepWrite

PatchSpec == PatchInit /\ [][PatchNext]_vars

\* ------------------------------------------------------------------------
\* Properties
\* ------------------------------------------------------------------------

\* the send_cmd_list that last and seen describe has returned last.rv
Ended == ~Running /\ last.exit \in {"break", "ret"}

\* a backend call of the last iteration reported a failure
CallFailed == \E k \in 1..Len(last.calls) : last.calls[k].ret < 0

\* the physical operations of the last iteration
LastOps == SubSeq(log, last.mark + 1, Len(log))

\* the stream the last iteration decoded from
LastStream == msc[last.type]

\* a read mismatch never stops the run and is never cleared; the result of
\* a run with a mismatch is the verification error or a transport failure
C1_Soft ==
    /\ (Running /\ seen.mismatch) => match = -EINVAL
    /\ (last.kind = "read" /\ ~last.skipped /\ last.mismatch /\ ~CallFailed
        /\ ~last.trunc /\ length > 0)
         => (Running /\ last.exit = "cont" /\ match = -EINVAL)
    /\ (Ended /\ seen.mismatch)
         => \/ last.rv = -EINVAL
            \/ /\ last.exit = "ret" /\ last.rv < 0
               /\ \E k \in 1..Len(last.calls) : last.calls[k].ret = last.rv

\* C1 as stated: a read mismatch (little-endian compare over the read
\* width) does not stop the run, a later matching read does not clear it,
\* the run returns the verification error unless a transport failure is
\* returned, and a run in which every read matches and no transport call
\* fails returns success
C1_Original ==
    /\ C1_Soft
    /\ (Ended /\ ~seen.mismatch /\ ~seen.failed) => last.rv = 0

\* C1 (amended): as C1, but a run in which every read matches and no
\* transport call fails returns success only if it met no unknown opcode
C1_ReadMismatchIsSoft ==
    /\ C1_Soft
    /\ (Ended /\ ~seen.mismatch /\ ~seen.failed /\ ~seen.unknown)
         => last.rv = 0

\* a run recorded a mismatch, went on, ended with a matching read that was
\* dispatched, and returned the verification error
C1_Witness ==
    /\ Ended /\ seen.mismatch /\ seen.steps >= 2 /\ ~seen.trunc
    /\ last.kind = "read" /\ ~last.skipped /\ ~last.mismatch /\ ~CallFailed
    /\ last.ncalls > 0
    /\ last.rv = -EINVAL

\* C2: a backend call that reports a failure ends the run at once with that
\* error: it is the last thing the iteration does and nothing follows
C2_TransportFailureIsFatal ==
    (CallFailed /\ ~last.trunc) =>
        /\ last.exit # "cont"
        /\ ~Running
        /\ last.calls[Len(last.calls)].ret = last.rv
        /\ \A k \in 1..(Len(last.calls) - 1) : last.calls[k].ret >= 0
        /\ (Len(LastOps) > 0 => LastOps[Len(LastOps)].op # "msleep")

\* C3: an instruction whose declared length exceeds the bytes that remain
\* ends the run with an error, never with success
C3_TruncatedIsError ==
    (Ended /\ last.trunc) => last.rv < 0

\* C4: the instruction after a non-matching lane gate is skipped whatever
\* its kind: no backend call, no sleep, no verification for it
C4_SkipSkipsAnyKind ==
    (last.skipped /\ ~last.trunc
     /\ last.kind \in {"write", "mrps", "read", "delay"})
        => (last.nops = 0 /\ last.ncalls = 0 /\ ~last.mismatch)

Ord(t) == IF t = TYPE_I2C THEN 1 ELSE IF t = TYPE_MIPI THEN 2 ELSE 3

\* C5: the streams of a phase run in the order two-wire, command
\* interface, serial; a stream starts only after every earlier one
\* returned success; the phase returns the first non-success result, or
\* success; no operation of a later stream follows a failed stream
C5_PhaseOrder ==
    /\ \A j \in 1..Len(runs) : \A k \in 1..(j - 1) :
         Ord(runs[k].type) < Ord(runs[j].type) /\ runs[k].ret = 0
    /\ Running => \A k \in 1..Len(runs) :
         Ord(runs[k].type) < Ord(type) /\ runs[k].ret = 0
    /\ \A k \in 1..Len(log) : \A j \in 1..Len(runs) :
         Ord(runs[j].type) < Ord(log[k].by) => runs[j].ret = 0
    /\ \A k \in 1..Len(log) : \A j \in 1..(k - 1) :
         Ord(log[j].by) <= Ord(log[k].by)
    /\ stage = "ret" =>
         /\ ret = IF Len(runs) > 0 THEN runs[Len(runs)].ret ELSE 0
         /\ ret = 0 =>
              [k \in 1..Len(runs) |-> runs[k].type]
                = (IF i2c THEN <<TYPE_I2C>> ELSE <<>>) \o <<TYPE_MIPI>>
                  \o (IF spi THEN <<TYPE_SPI>> ELSE <<>>)

\* the two-wire stream succeeded, the command-interface stream failed, and
\* the serial stream, though present, was never started
C5_Witness ==
    /\ stage = "ret" /\ Len(runs) = 2
    /\ runs[1].type = TYPE_I2C /\ runs[1].ret = 0
    /\ runs[2].type = TYPE_MIPI /\ runs[2].ret < 0
    /\ spi /\ Len(msc.spi) > 0
    /\ Len(log) >= 2 /\ ret = runs[2].ret

\* send_all_cmd_lists is about to deal with a stream that is empty or
\* whose handle is absent
NoOpStage ==
    /\ ~Running
    /\ stage \in {"i2c", "mipi", "spi"}
    /\ \/ Len(msc[stage]) = 0
       \/ stage = "i2c" /\ ~i2c
       \/ stage = "spi" /\ ~spi

\* C6: an empty or absent stream, or one whose handle is absent, is a
\* no-op that counts as success: nothing is decoded, called, slept or
\* flushed and the accumulator is untouched; with only the command
\* interface present and succeeding the phase succeeds and only that
\* backend sees calls; a phase without any stream succeeds
C6_EmptyIsNoOp ==
    /\ [][NoOpStage => /\ log' = log /\ spi_bits' = spi_bits /\ lpm' = lpm
                       /\ cmd' = cmd /\ length' = length /\ ~Running'
                       /\ ret' = ret /\ last' = last
                       /\ stage' = NextStage(stage)]_vars
    /\ [](stage = "ret" =>
            /\ (Len(msc.i2c) = 0 /\ Len(msc.mipi) = 0 /\ Len(msc.spi) = 0)
                 => (ret = 0 /\ log = <<>>)
            /\ (~i2c /\ ~spi) => \A k \in 1..Len(log) : log[k].by = TYPE_MIPI
            /\ (~i2c /\ ~spi /\ Len(runs) = 1) => ret = runs[1].ret)

\* a phase whose serial handle exists but whose streams are all empty has
\* returned success and left the 9 bits of the accumulator alone
C6_Witness ==
    /\ stage = "ret" /\ ret = 0
    /\ spi /\ i2c /\ Len(msc.spi) = 0
    /\ spi_bits = 9
    /\ Len(runs) = 3

\* the bytes the Write or Delay instruction at the head of s takes, 0 if
\* s starts with neither: a direct Write is its length and its payload, a
\* Delay its opcode and the milliseconds
WDSize(s) == IF s[1] = S_DELAY THEN 2
             ELSE IF s[1] < S_DELAY THEN s[1] + 1
             ELSE 0

\* s is a sequence of complete direct Writes and Delays
RECURSIVE IsWD(_)
IsWD(s) == IF Len(s) = 0 THEN TRUE
           ELSE LET n == WDSize(s) IN
                /\ n > 0 /\ n <= Len(s)
                /\ IsWD(SubSeq(s, n + 1, Len(s)))

\* the instructions of such a sequence
RECURSIVE WDParse(_)
WDParse(s) == IF Len(s) = 0 THEN <<>>
              ELSE LET n == WDSize(s) IN
                   <<SubSeq(s, 1, n)>> \o WDParse(SubSeq(s, n + 1, Len(s)))

\* the operations ops and the result rv are what the Write and Delay
\* instructions q ask for, in order: per Write one transfer, and a sleep of
\* 10 ms and one more transfer if the first failed; per Delay one sleep
RECURSIVE Conforms(_, _, _)
Conforms(q, ops, rv) ==
    IF Len(q) = 0 THEN ops = <<>> /\ rv = 0
    ELSE IF q[1][1] = S_DELAY
    THEN /\ Len(ops) >= 1
         /\ ops[1].op = "msleep" /\ ops[1].arg = <<q[1][2]>>
         /\ Conforms(Tail(q), Tail(ops), rv)
    ELSE /\ Len(ops) >= 1
         /\ ops[1].op = "i2c_transfer" /\ Len(ops[1].arg) = q[1][1]
         /\ IF ops[1].ret >= 0 THEN Conforms(Tail(q), Tail(ops), rv)
            ELSE /\ Len(ops) >= 3
                 /\ ops[2].op = "msleep" /\ ops[2].arg = <<10>>
                 /\ ops[3].op = "i2c_transfer" /\ Len(ops[3].arg) = q[1][1]
                 /\ IF ops[3].ret >= 0
                    THEN Conforms(Tail(q), SubSeq(ops, 4, Len(ops)), rv)
                    ELSE Len(ops) = 3 /\ rv < 0

\* C7 as stated: on the two-wire bus a stream of Writes and Delays yields,
\* in stream order, one transfer per Write plus one more after a failed
\* first one, and one sleep per Delay; success unless a Write fails twice
C7_Original ==
    (Ended /\ last.type = TYPE_I2C /\ IsWD(msc.i2c)) =>
        Conforms(WDParse(msc.i2c), log, last.rv)

\* a Write without payload whose opcode is the last byte of the stream
DropFinalEmptyWrite(q) ==
    IF Len(q) > 0 /\ q[Len(q)] = <<0>> THEN SubSeq(q, 1, Len(q) - 1) ELSE q

\* C7 (amended): as C7, except that a Write of no byte whose opcode is the
\* last byte of the stream is not executed
C7_WritesAndDelaysInOrder ==
    (Ended /\ last.type = TYPE_I2C /\ IsWD(msc.i2c)) =>
        Conforms(DropFinalEmptyWrite(WDParse(msc.i2c)), log, last.rv)

\* Write([1,2]), Delay(5), Write([3]) with the first transfer failing once:
\* three transfers, the retry sleep, one sleep of 5 ms, success
C7_Witness ==
    /\ Ended /\ last.type = TYPE_I2C
    /\ msc.i2c = I_W2 \o I_DL \o I_W1
    /\ Len(log) = 5 /\ log[1].ret < 0 /\ log[3].ret >= 0
    /\ log[4].op = "msleep" /\ log[4].arg = <<5>>
    /\ last.rv = 0

\* the payload length the write instruction at stream offset pos declares
PayloadLen(st, pos) ==
    LET op7 == Low7(st[pos + 1]) IN
    IF op7 = S_DCS_LENGTH THEN st[pos + 2]
    ELSE IF op7 = S_DCS_BUF THEN Min(st[pos + 2], CMD_BUF_SIZE)
    ELSE op7

\* C8: simple_i2c_write makes at most two transfers, the second if and
\* only if the first failed and after a sleep of 10 ms; it succeeds iff
\* the last transfer made succeeded and else reports the error of the
\* second; a payload of more than 63 bytes is rejected without a transfer
C8_I2cWriteRetry ==
    (last.type = TYPE_I2C /\ last.kind = "write" /\ ~last.skipped
     /\ ~last.trunc) =>
        LET ops == LastOps
            r == last.calls[1].ret
        IN /\ last.ncalls = 1
           /\ IF PayloadLen(LastStream, last.pos) > TX_BUF_SIZE
              THEN ops = <<>> /\ r < 0
              ELSE /\ Len(ops) \in {1, 3}
                   /\ ops[1].op = "i2c_transfer"
                   /\ Len(ops) = 3 <=> ops[1].ret < 0
                   /\ Len(ops) = 3 =>
                        /\ ops[2].op = "msleep" /\ ops[2].arg = <<10>>
                        /\ ops[3].op = "i2c_transfer"
                        /\ ops[3].arg = ops[1].arg
                   /\ r = 0 <=> ops[Len(ops)].ret >= 0
                   /\ ops[Len(ops)].ret < 0 => r = ops[Len(ops)].ret

\* both transfers of a write failed, with different errors, and the write
\* reported the second
C8_Witness ==
    /\ last.type = TYPE_I2C /\ last.kind = "write" /\ ~last.skipped
    /\ ~last.trunc /\ Len(LastOps) = 3
    /\ LastOps[1].ret = -ENXIO /\ LastOps[3].ret = -EIO
    /\ last.calls[1].ret = -EIO /\ last.rv = -EIO

\* C9: a command-interface read that fails, after its retry or with an
\* error that is not retried, aborts the stream with that error
C9_FailedDsiReadIsFatal ==
    (last.type = TYPE_MIPI /\ last.kind = "read" /\ ~last.skipped
     /\ ~last.trunc /\ CallFailed) =>
        (last.exit = "ret" /\ last.rv = last.calls[1].ret)

\* C10: a serial run that ends by exhausting its stream has handed every
\* packed bit to a transfer, also after a read mismatch
C10_SerialRunEndsFlushed ==
    (Ended /\ last.type = TYPE_SPI /\ last.exit = "break"
     /\ ~seen.unknown /\ ~seen.trunc) => spi_bits = 0

\* bit k of the bytes tx of a transfer, in the order they are shifted out
WireBit(tx, k) == Bit(tx[(k \div 8) + 1], 7 - (k % 8))

\* the marker bits of the first n 9-bit groups of a transfer
Markers(tx, n) == [j \in 1..n |-> WireBit(tx, 9 * (j - 1))] \o <<>>

\* the marker bits one store_9bit call of l bytes is meant to pack
CallMarkers(l) == [j \in 1..l |-> IF j = 1 THEN 0 ELSE 1] \o <<>>

\* the write transfers of the serial run
SpiWrites == SelectSeq(log, LAMBDA o : o.by = TYPE_SPI /\ o.op = "spi_sync")

\* the marker bits of the transfers that the Writes and Delays q cause when
\* every Write is packed by one call and a Delay or the end of the stream
\* flushes what is pending; cur are the markers pending so far
RECURSIVE WDMarkers(_, _)
WDMarkers(q, cur) ==
    LET flush == IF Len(cur) > 0 THEN <<cur>> ELSE <<>> IN
    IF Len(q) = 0 THEN flush
    ELSE IF q[1][1] = S_DELAY THEN flush \o WDMarkers(Tail(q), <<>>)
    ELSE WDMarkers(Tail(q), cur \o CallMarkers(q[1][1]))

\* the 9-bit groups of a read transfer of bits bits: the command bytes
ReadGroups(bits) == IF (bits - 9) % 8 = 0 THEN 1 ELSE 2

\* C18 as stated: in every 9-bit serial transfer the marker bit is 0 for
\* the first byte packed since the last flush and 1 for every byte after
\* it, also when several store_9bit calls fill the same transfer
C18_Original ==
    spi_9bit =>
        \A k \in 1..Len(log) :
            (log[k].by = TYPE_SPI /\ log[k].op = "spi_sync") =>
                \A j \in 1..(log[k].arg[2] \div 9) :
                    WireBit(log[k].tx, 9 * (j - 1)) = (IF j = 1 THEN 0 ELSE 1)

\* C18 (amended): the marker bit is 0 for the first byte of every
\* store_9bit call (every Write, the command of every Read) and 1 for the
\* other bytes of the call, wherever the call lands in the transfer
C18_MarkerPerCall ==
    /\ (spi_9bit /\ Ended /\ last.type = TYPE_SPI /\ IsWD(msc.spi)) =>
          [k \in 1..Len(SpiWrites) |->
              Markers(SpiWrites[k].tx, SpiWrites[k].arg[2] \div 9)] \o <<>>
          = WDMarkers(DropFinalEmptyWrite(WDParse(msc.spi)), <<>>)
    /\ spi_9bit =>
          \A k \in 1..Len(log) :
              (log[k].by = TYPE_SPI /\ log[k].op = "spi_sync_rx") =>
                  /\ WireBit(log[k].tx, 0) = 0
                  /\ ReadGroups(log[k].arg[2]) = 2 => WireBit(log[k].tx, 9) = 1

\* Write([1,2]) and Write([3]) packed into one transfer of three groups
\* marked 0, 1, 0
C18_Witness ==
    /\ spi_9bit /\ Ended /\ last.type = TYPE_SPI
    /\ msc.spi = I_W2 \o I_W1
    /\ Len(SpiWrites) = 1 /\ SpiWrites[1].arg[2] = 27
    /\ Markers(SpiWrites[1].tx, 3) = <<0, 1, 0>>

\* the payload bytes of the direct or length-prefixed Write at offset pos
PayloadAt(st, pos) ==
    LET op7 == Low7(st[pos + 1])
        from == IF op7 = S_DCS_LENGTH THEN pos + 3 ELSE pos + 2
    IN SubSeq(st, from, from + PayloadLen(st, pos) - 1)

\* a serial Write that was executed and is followed by another instruction
SerialWriteDone ==
    /\ last.type = TYPE_SPI /\ last.kind = "write"
    /\ ~last.skipped /\ ~last.trunc /\ last.exit = "cont"

C20_DelayFlushesThenSleeps ==
    (last.kind = "delay" /\ ~last.skipped) =>
        LET ops == LastOps
            ms == LastStream[last.pos + 2]
            sleep == ops[Len(ops)]
        IN /\ Len(ops) >= 1
           /\ sleep.op = "msleep" /\ sleep.arg = <<ms>>
           /\ IF last.type = TYPE_SPI /\ last.bits0 > 0
              THEN /\ Len(ops) = 2
                   /\ ops[1].op = "spi_sync"
                   /\ ops[1].arg[2] = last.bits0
                   /\ ops[1].tx = Wire(tx_buf, (last.bits0 + 7) \div 8)
              ELSE Len(ops) = 1
           /\ last.type = TYPE_SPI => spi_bits = 0

\* a Delay behind a 9-bit Write: the 9 bits are transferred, then the sleep
C20_Witness ==
    /\ last.kind = "delay" /\ ~last.skipped /\ last.type = TYPE_SPI
    /\ last.bits0 = 9 /\ Len(LastOps) = 2
    /\ LastOps[1].op = "spi_sync" /\ LastOps[2].op = "msleep"
    /\ LastOps[2].arg = <<5>>

\* a payload that fits the transmit buffer was packed into an empty
\* accumulator and a part of the buffer was extracted
ExtractedAfterPack ==
    /\ pk.kind = "extract" /\ pk.i = 0
    /\ 9 * Len(pk.p) <= TX_BUF_SIZE * 8

\* C11 as stated: packing B into an empty accumulator and extracting len(B)
\* bytes at start bit 0 returns B
C11_Original ==
    (ExtractedAfterPack /\ pk.n = Len(pk.p) /\ pk.s = 0) => pk.out = pk.p

\* C11 (amended): after packing B into an empty accumulator, extracting one
\* byte at start bit 9*k + 1 returns B[k], for every k < len(B); extracting
\* len(B) bytes at start bit 0 returns the first len(B) bytes of the packed
\* buffer, each made of the marker and data bits that fall into it
C11_ExtractBehindMarker ==
    ExtractedAfterPack =>
        /\ (pk.n = 1 /\ pk.s % 9 = 1)
              => pk.out = <<pk.p[(pk.s \div 9) + 1]>>
        /\ (pk.n = Len(pk.p) /\ pk.s = 0)
              => pk.out = Wire(tx_buf, Len(pk.p))

\* the last of 56 packed bytes is extracted from bit 496
C11_Witness ==
    /\ ExtractedAfterPack /\ Len(pk.p) = 56
    /\ pk.n = 1 /\ pk.s = 496 /\ pk.out = <<pk.p[56]>>
    /\ pk.p[56] # 0

\* the bytes p are packed in tx_buf from bit i on, 9 bits each
PackedAt(i, p) ==
    \A k \in 0..(Len(p) - 1) :
        extract_data(1, tx_buf, i + 9 * k + 1) = <<p[k + 1]>>

\* C12: store_9bit of l bytes on an accumulator of i bits fails with an
\* error when 9*l > 504, having flushed what was pending; else when
\* i + 9*l > 504 it flushes exactly once, packs from bit 0 and leaves 9*l
\* bits; else it does not flush, packs from bit i and leaves i + 9*l bits
C12_StoreFlushRule ==
    pk.kind = "pack" =>
        LET bits == 9 * Len(pk.p) IN
        IF bits > TX_BUF_SIZE * 8
        THEN /\ pk.ret = -EINVAL
             /\ pk.nflush = (IF pk.i > 0 THEN 1 ELSE 0)
             /\ spi_bits = 0
        ELSE IF pk.i + bits > TX_BUF_SIZE * 8
        THEN /\ pk.nflush = 1
             /\ log[Len(log)].arg[2] = pk.i
             /\ pk.ret = log[Len(log)].ret
             /\ spi_bits = bits
             /\ PackedAt(0, pk.p)
        ELSE /\ pk.nflush = 0
             /\ pk.ret = 0
             /\ spi_bits = pk.i + bits
             /\ PackedAt(pk.i, pk.p)

\* 56 bytes were packed into the empty accumulator without a flush, and the
\* byte packed next has flushed the 504 bits and starts at bit 0
C12_Witness ==
    /\ pk.kind = "pack" /\ pk.i = 504 /\ Len(pk.p) = 1
    /\ pk.nflush = 1 /\ Len(log) = 1 /\ log[1].arg = <<63, 504>>
    /\ spi_bits = 9

\* the instruction about to be decoded is a FieldPatch whose operands are
\* all in the stream
PatchAhead ==
    /\ Running /\ length > 0 /\ Kind(opcode) = "patch"
    /\ cmd + 1 + (IF Low7(opcode) = S_CONST THEN 6 ELSE 3) <= Len(Stream)

\* bit k of the staged buffer b
BufBit(b, k) == Bit(b[k \div 8], k % 8)

\* C13: a FieldPatch with dest_start < 256 and dest_len <= 32 changes only
\* the bits [dest_start, dest_start + dest_len) of the staged buffer,
\* whatever bits the source value has above bit dest_len - 1
C13_PatchOnlyField ==
    [][(PatchAhead /\ Stream[cmd + 3] <= 32) =>
          \A k \in 0..(8 * CMD_BUF_SIZE - 1) :
              (k < Stream[cmd + 2] \/ k >= Stream[cmd + 2] + Stream[cmd + 3])
                  => BufBit(cmd_buf', k) = BufBit(cmd_buf, k)]_vars

\* the step returns from a call of the handler fn that did not run a phase
ReturnsAtOnce(fn) ==
    pc = "idle" /\ pc' = "idle" /\ called'.seq # called.seq /\ called'.fn = fn

\* the step is the first of a call of the handler fn
Calls(fn) == pc = "idle" /\ (pc' = fn \/ ReturnsAtOnce(fn))

\* the step returns from the handler fn after its phase
ReturnsAfterPhase(fn) == pc = fn /\ pc' = "idle"

\* the backlight was not touched by the call so far
NoBacklightOp(l) ==
    \A k \in 1..Len(l) : l[k].op # "backlight_update_status"

\* the lines were not touched by the call so far
NoLineOp(l) ==
    \A k \in 1..Len(l) : l[k].op \notin {"gpiod_set_value(reset)",
                                        "gpiod_set_value(prepare-enable)"}

\* C14: when the init phase fails, prepare returns its error, disables the
\* regulator again and leaves prepared false; when the regulator cannot be
\* enabled, prepare returns that error and has touched no line and sent no
\* command
C14_PrepareFailure ==
    [][/\ (ReturnsAfterPhase("prepare") /\ ret # 0) =>
             /\ called'.fn = "prepare" /\ called'.ret = ret
             /\ prepared' = FALSE /\ prepared = FALSE
             /\ supply' = supply - 1 /\ supply' = 0
             /\ log' = log \o <<PanelOp("regulator_disable", <<>>, 0)>>
       /\ (ReturnsAtOnce("prepare") /\ ~prepared) =>
             /\ called'.ret < 0
             /\ log' = <<PanelOp("regulator_enable", <<>>, called'.ret)>>
             /\ UNCHANGED <<prepared, enabled, supply, gpd_prepare_enable,
                            reset, backlight, spi_bits, tx_buf, lpm, runs>>
       /\ (Calls("prepare") /\ ~prepared /\ pc' = "prepare") =>
             log'[1] = PanelOp("regulator_enable", <<>>, 0)]_vars

\* prepare has failed in the init phase: the lines are driven, the
\* regulator is off again
C14_Witness ==
    /\ pc = "idle" /\ called.fn = "prepare" /\ called.ret < 0
    /\ called.ret = ret
    /\ Len(log) > 2 /\ log[1].op = "regulator_enable" /\ log[1].ret = 0
    /\ log[Len(log)].op = "regulator_disable"
    /\ ~prepared /\ supply = 0

\* C15: when the enable phase fails, enable returns the error, runs no
\* list a second time, leaves enabled false and the backlight alone,
\* asserts reset and deasserts prepare-enable; the backlight is switched on
\* only after the whole phase has succeeded and the enable delay is over
C15_EnableFailure ==
    [][/\ ReturnsAfterPhase("enable") =>
             IF ret < 0
             THEN /\ called'.ret = ret
                  /\ enabled' = FALSE
                  /\ backlight' = backlight /\ NoBacklightOp(log')
                  /\ reset' = LineAt(reset, 1)
                  /\ gpd_prepare_enable' = LineAt(gpd_prepare_enable, 0)
                  /\ runs' = runs /\ Len(runs) <= 3
             ELSE /\ called'.ret = 0
                  /\ enabled' = TRUE
                  /\ backlight' = (IF backlight # "absent" THEN "on"
                                   ELSE "absent")
                  /\ log' = log \o Sleep(desc.delay.enable)
                                \o SetBacklight(FB_BLANK_UNBLANK)
       /\ pc' = "enable" => (backlight' = backlight /\ NoBacklightOp(log')
                             /\ enabled' = FALSE)]_vars

\* enable has failed on a prepared panel with all lines and a backlight
C15_Witness ==
    /\ pc = "idle" /\ called.fn = "enable" /\ called.ret < 0
    /\ prepared /\ ~enabled /\ backlight = "off"
    /\ reset = 1 /\ gpd_prepare_enable = 0
    /\ Len(log) >= 3 /\ log[Len(log)].op = "gpiod_set_value(prepare-enable)"

\* C16: disable of an enabled panel switches the backlight off first,
\* then waits the disable delay, then runs the disable phase; it returns
\* success and leaves enabled false whatever the phase returned
C16_DisableAlwaysSucceeds ==
    [][/\ (Calls("disable") /\ enabled) =>
             /\ pc' = "disable"
             /\ backlight' = (IF backlight # "absent" THEN "off" ELSE "absent")
             /\ log' = SetBacklight(FB_BLANK_POWERDOWN)
                       \o Sleep(desc.delay.disable)
       /\ ReturnsAfterPhase("disable") =>
             /\ called'.fn = "disable" /\ called'.ret = 0
             /\ enabled' = FALSE
             /\ log' = log /\ backlight' = backlight
       /\ (pc = "disable" /\ pc' = "disable") =>
             (backlight' = backlight /\ enabled' = enabled)]_vars

\* disable has returned success although its phase failed
C16_Witness ==
    /\ pc = "idle" /\ called.fn = "disable" /\ ~called.noop
    /\ called.ret = 0 /\ ret < 0
    /\ ~enabled /\ backlight = "off"
    /\ Len(log) >= 3
    /\ log[1].op = "backlight_update_status" /\ log[2].op = "msleep"

\* the panel is in the state the handler fn leads to
InTarget(fn) ==
    \/ fn = "prepare" /\ prepared
    \/ fn = "unprepare" /\ ~prepared
    \/ fn = "enable" /\ enabled
    \/ fn = "disable" /\ ~enabled

\* C17: a lifecycle call made in its target state returns success at once
\* and changes nothing
C17_TargetStateNoOp ==
    [][\A fn \in {"prepare", "unprepare", "enable", "disable"} :
          (Calls(fn) /\ InTarget(fn)) =>
              /\ pc' = "idle"
              /\ called'.ret = 0
              /\ log' = <<>>
              /\ UNCHANGED <<prepared, enabled, supply, gpd_prepare_enable,
                             reset, backlight, spi_bits, tx_buf, lpm, msc,
                             runs>>]_vars

\* prepare was called on a prepared panel that is also enabled
C17_Witness ==
    /\ pc = "idle" /\ called.fn = "prepare" /\ called.noop
    /\ called.ret = 0 /\ log = <<>>
    /\ prepared /\ enabled /\ supply = 1

\* unprepare has returned from a prepared panel
Unprepared == pc = "idle" /\ called.fn = "unprepare" /\ ~called.noop

\* C30 as stated: unprepare of a prepared panel waits the unprepare delay,
\* deasserts prepare-enable, asserts reset, disables the regulator, in this
\* order, and then sets prepared to false
C30_Original ==
    Unprepared =>
        /\ log = Sleep(desc.delay.unprepare)
                 \o SetLine(gpd_prepare_enable,
                            "gpiod_set_value(prepare-enable)", 0)
                 \o SetLine(reset, "gpiod_set_value(reset)", 1)
                 \o <<PanelOp("regulator_disable", <<>>, 0)>>
        /\ prepared = FALSE

\* C30 (amended): unprepare of a prepared panel waits the unprepare delay,
\* asserts reset, deasserts prepare-enable, disables the regulator, in this
\* order, and then sets prepared to false and returns success
C30_UnprepareOrder ==
    Unprepared =>
        /\ log = Sleep(desc.delay.unprepare)
                 \o SetLine(reset, "gpiod_set_value(reset)", 1)
                 \o SetLine(gpd_prepare_enable,
                            "gpiod_set_value(prepare-enable)", 0)
                 \o <<PanelOp("regulator_disable", <<>>, 0)>>
        /\ prepared = FALSE /\ supply = 0
        /\ reset = LineAt(reset, 1)
        /\ gpd_prepare_enable = LineAt(gpd_prepare_enable, 0)
        /\ called.ret = 0

\* a panel with both lines and a delay was unprepared: four operations
C30_Witness ==
    /\ Unprepared /\ Len(log) = 4
    /\ log[1].op = "msleep" /\ log[1].arg = <<50>>
    /\ log[2].op = "gpiod_set_value(reset)" /\ log[2].arg = <<1>>
    /\ log[3].op = "gpiod_set_value(prepare-enable)" /\ log[3].arg = <<0>>
    /\ log[4].op = "regulator_disable"

\* the byte made of the 8 bits from bit k on of the transferred bytes tx
WireByte(tx, k) ==
    128 * WireBit(tx, k) + 64 * WireBit(tx, k + 1) + 32 * WireBit(tx, k + 2)
    + 16 * WireBit(tx, k + 3) + 8 * WireBit(tx, k + 4)
    + 4 * WireBit(tx, k + 5) + 2 * WireBit(tx, k + 6) + WireBit(tx, k + 7)

\* a serial Read whose command and expected bytes are all in the stream
\* was executed
SerialReadDone ==
    /\ last.type = TYPE_SPI /\ last.kind = "read"
    /\ ~last.skipped /\ ~last.trunc
    /\ last.pos + 1 + (IF last.generic THEN 2 ELSE 1)
         + (Low7(LastStream[last.pos + 1]) - S_DCS_READ1 + 1)
       <= Len(LastStream)

\* C21: a non-skipped serial Read of N bytes with a k-byte command issues
\* exactly one full-duplex transfer: the command bytes from bit 0 on, w
\* bits each (w = 9 or 8), then N * 8 one bits; the N bytes read are the
\* bits of the receive buffer from bit w * k on; bits pending before the
\* Read went out in an earlier transfer of their own
C21_SerialReadLayout ==
    SerialReadDone =>
        LET ops == LastOps
            st == LastStream
            k == IF last.generic THEN 2 ELSE 1
            N == Low7(st[last.pos + 1]) - S_DCS_READ1 + 1
            w == IF spi_9bit THEN 9 ELSE 8
            rd == ops[Len(ops)]
        IN /\ Len(ops) = (IF last.bits0 > 0 THEN 2 ELSE 1)
           /\ last.bits0 > 0 =>
                 /\ ops[1].op = "spi_sync"
                 /\ ops[1].arg[2] = last.bits0
           /\ rd.op = "spi_sync_rx"
           /\ rd.arg = <<(w * k + 8 * N + 7) \div 8, w * k + 8 * N>>
           /\ Len(rd.tx) = rd.arg[1]
           /\ \A j \in 0..(k - 1) :
                 WireByte(rd.tx, w * j + (w - 8)) = st[last.pos + 2 + j]
           /\ \A b \in (w * k)..(w * k + 8 * N - 1) : WireBit(rd.tx, b) = 1
           /\ Len(last.rx) = rd.arg[1]
           /\ last.data = [j \in 1..N |->
                              WireByte(last.rx, w * k + 8 * (j - 1))]
           /\ spi_bits = 0

\* a generic Read of one byte in 9-bit framing behind a pending Write: the
\* 9 pending bits go out first, then 26 bits are exchanged
C21_Witness ==
    /\ SerialReadDone /\ spi_9bit /\ last.generic
    /\ last.bits0 = 9 /\ Len(LastOps) = 2
    /\ LastOps[2].arg = <<4, 26>>
    /\ last.data = <<14>>

\* a Read was executed on the command interface
DsiReadDone ==
    /\ last.type = TYPE_MIPI /\ last.kind = "read" /\ ~last.skipped

\* C22: a non-skipped Read on the command interface issues the generic
\* read when tagged generic and the DCS read otherwise, once or twice: the
\* second read is issued exactly when the first returned -EPROTO
C22_DsiReadRetry ==
    DsiReadDone =>
        LET ops == LastOps
            fn == IF last.generic THEN "mipi_dsi_generic_read"
                  ELSE "mipi_dsi_dcs_read"
        IN /\ Len(ops) \in {1, 2}
           /\ \A k \in 1..Len(ops) : ops[k].op = fn /\ ops[k].by = TYPE_MIPI
           /\ Len(ops) = 2 <=> ops[1].ret = -EPROTO
           /\ Len(ops) = 2 => ops[2].arg = ops[1].arg

\* a generic Read of one byte whose first attempt returned -EPROTO was
\* repeated once, and the second attempt read the byte
C22_Witness ==
    /\ DsiReadDone /\ last.generic
    /\ Len(LastOps) = 2
    /\ LastOps[1].ret = -EPROTO /\ LastOps[2].ret = 1

\* the bytes a Write on the two-wire bus was given: stream bytes, or the
\* staged buffer for a BufferedWrite
I2cPayload ==
    IF Low7(LastStream[last.pos + 1]) = S_DCS_BUF
    THEN Wire(cmd_buf, PayloadLen(LastStream, last.pos))
    ELSE PayloadAt(LastStream, last.pos)

\* tx with its first two bytes exchanged, spelled out byte by byte
Exchanged(tx, out) ==
    /\ Len(out) = Len(tx)
    /\ \A j \in 1..Len(tx) :
         out[j] = IF Len(tx) >= 2 /\ j = 1 THEN tx[2]
                  ELSE IF Len(tx) >= 2 /\ j = 2 THEN tx[1]
                  ELSE tx[j]

\* a Write of at most 63 bytes was executed on the two-wire bus
I2cWriteDone ==
    /\ last.type = TYPE_I2C /\ last.kind = "write"
    /\ ~last.skipped /\ ~last.trunc
    /\ PayloadLen(LastStream, last.pos) <= TX_BUF_SIZE

\* a Read whose bytes are all in the stream was executed on the two-wire bus
I2cReadDone ==
    /\ last.type = TYPE_I2C /\ last.kind = "read"
    /\ ~last.skipped /\ ~last.trunc
    /\ last.pos + 1 + (IF last.generic THEN 2 ELSE 1)
         + (Low7(LastStream[last.pos + 1]) - S_DCS_READ1 + 1)
       <= Len(LastStream)

\* C23: every transfer of simple_i2c_write, and the write segment of the
\* one transfer of simple_i2c_read, carries the payload with bytes 0 and 1
\* exchanged when there are at least two, unchanged otherwise, at the same
\* length; simple_i2c_read makes exactly one transfer
C23_I2cByteSwap ==
    /\ I2cWriteDone =>
         /\ Len(LastOps) >= 1
         /\ \A k \in 1..Len(LastOps) :
              LastOps[k].op = "i2c_transfer"
                 => Exchanged(I2cPayload, LastOps[k].arg)
    /\ I2cReadDone =>
         /\ Len(LastOps) = 1
         /\ LastOps[1].op = "i2c_transfer_rd"
         /\ Exchanged(SubSeq(LastStream, last.pos + 2,
                             last.pos + 1 + (IF last.generic THEN 2 ELSE 1)),
                      LastOps[1].arg)

\* a Write of [7, 8, 9] went out as [8, 7, 9], twice because the first
\* transfer failed
C23_Witness ==
    /\ I2cWriteDone /\ I2cPayload = <<7, 8, 9>>
    /\ Len(LastOps) = 3
    /\ LastOps[1].arg = <<8, 7, 9>> /\ LastOps[3].arg = <<8, 7, 9>>

\* a FieldPatch whose operands are all in the stream was the last
\* instruction decoded, and the run goes on
PatchDone ==
    /\ last.kind = "patch" /\ last.exit = "cont"
    /\ last.pos + 1 + (IF Low7(LastStream[last.pos + 1]) = S_CONST
                       THEN 6 ELSE 3) <= Len(LastStream)

\* the operands of that FieldPatch
PatchScmd == Low7(LastStream[last.pos + 1])
PatchDestStart == LastStream[last.pos + 2]
PatchDestLen == LastStream[last.pos + 3]
PatchSrcStart == IF PatchScmd = S_CONST THEN 0 ELSE LastStream[last.pos + 4]

\* bit k of the staged buffer b when bit offsets count from the most
\* significant bit of each byte
MsbBit(b, k) == Bit(b[k \div 8], 7 - (k % 8))

\* C24 as stated: with bit offsets counted from the most significant bit of
\* each byte, the dest_len bits from offset dest_start on, the first read
\* being the most significant, are the low dest_len bits of the shifted
\* source value
C24_Original ==
    (PatchDone /\ PatchDestLen <= 32 /\ PatchDestStart + PatchDestLen <= 256) =>
        \A i \in 0..(PatchDestLen - 1) :
            MsbBit(cmd_buf, PatchDestStart + i) = last.val[PatchDestLen - 1 - i]

\* C24 (amended): bit i of the shifted source value is bit dest_start + i of
\* the staged buffer, where bit k of the buffer is bit k % 8, counted from
\* the least significant, of byte k \div 8: the field is laid out least
\* significant bit first and the first addressed byte holds the lowest
\* bits; field bits from 32 on are 0, bits from 256 on are not written
C24_FieldValue ==
    PatchDone =>
        \A i \in 0..(PatchDestLen - 1) :
            PatchDestStart + i < 8 * CMD_BUF_SIZE =>
                BufBit(cmd_buf, PatchDestStart + i)
                    = (IF i < 32 THEN last.val[i] ELSE 0)

\* 12 bits at bit 4 := 0xabc on a buffer of 0xff: byte 0 is 0xcf, byte 1 is
\* 0xab
C24_Witness ==
    /\ PatchDone /\ PatchScmd = S_CONST
    /\ PatchDestStart = 4 /\ PatchDestLen = 12
    /\ cmd_buf[0] = 207 /\ cmd_buf[1] = 171 /\ cmd_buf[2] = 255

\* the quantity a selector names, from the timing snapshot
TimingQuantity(scmd) ==
    LET dm == dt_mode IN
    CASE scmd = S_HSYNC -> dm.hsync_end - dm.hsync_start
      [] scmd = S_HBP -> dm.htotal - dm.hsync_end
      [] scmd = S_HACTIVE -> dm.hdisplay
      [] scmd = S_HFP -> dm.hsync_start - dm.hdisplay
      [] scmd = S_VSYNC -> dm.vsync_end - dm.vsync_start
      [] scmd = S_VBP -> dm.vtotal - dm.vsync_end
      [] scmd = S_VACTIVE -> dm.vdisplay
      [] scmd = S_VFP -> dm.vsync_start - dm.vdisplay

\* bit k of x shifted right by n places, x a natural number below 2^31
ShiftedBit(x, n, k) == IF k + n >= 31 THEN 0 ELSE Bit(x, k + n)

\* C25: the value a FieldPatch patches is, for a computed source, the
\* quantity its selector names (sync width = sync_end - sync_start, back
\* porch = total - sync_end, active = display, front porch = sync_start -
\* display, horizontal and vertical) shifted right by src_start, and for a
\* literal source the 32-bit little-endian constant of the stream
C25_SourceValue ==
    PatchDone =>
        \A k \in 0..31 :
            last.val[k] =
                IF PatchScmd = S_CONST
                THEN Bit(LastStream[last.pos + 4 + (k \div 8)], k % 8)
                ELSE ShiftedBit(TimingQuantity(PatchScmd), PatchSrcStart, k)

\* a BufferedWrite was executed
BufferedWriteDone ==
    /\ last.kind = "write" /\ ~last.skipped /\ ~last.trunc
    /\ Low7(LastStream[last.pos + 1]) = S_DCS_BUF

\* C26: a FieldPatch, whatever dest_start and dest_len are, writes no byte
\* of the staged buffer at index 32 or above, and a BufferedWrite sends the
\* first min(n, 32) bytes of the staged buffer in one write: a length
\* above 32 is clamped, not rejected
C26_StagedBufferBound ==
    /\ PatchDone =>
         /\ last.top < CMD_BUF_SIZE
         /\ last.top = PatchTop(PatchDestStart, PatchDestLen)
         /\ DOMAIN cmd_buf = 0..(CMD_BUF_SIZE - 1)
    \* all operand bytes, evaluated in the states of one stream only
    /\ (PatchDone /\ SubSeq(LastStream, 1, 4) = <<S_HSYNC, 0, 0, 0>>) =>
         \A ds \in 0..255, dl \in 0..255 : PatchTop(ds, dl) < CMD_BUF_SIZE
    /\ (BufferedWriteDone /\ last.type = TYPE_MIPI) =>
         LET n == LastStream[last.pos + 2] IN
         /\ Len(LastOps) = 1
         /\ LastOps[1].op = "mipi_dsi_dcs_write_buffer"
         /\ Len(LastOps[1].arg) = (IF n > CMD_BUF_SIZE THEN CMD_BUF_SIZE ELSE n)
         /\ LastOps[1].arg = Wire(cmd_buf, Len(LastOps[1].arg))
         /\ last.calls[1].ret = LastOps[1].ret

\* a FieldPatch of 255 bits at bit 250 wrote up to the last byte of the
\* staged buffer
C26_Witness ==
    /\ PatchDone /\ PatchDestStart = 250 /\ PatchDestLen = 255
    /\ last.top = CMD_BUF_SIZE - 1

\* C27: on the serial transport the bit accumulator never holds more than
\* the 504 bits of the transmit buffer, every transfer is of
\* ceil(bits / 8) <= 63 bytes, and the store_high of a Read never fails
C27_AccumulatorBound ==
    /\ spi_bits <= TX_BUF_SIZE * 8
    /\ \A k \in 1..Len(log) :
         log[k].op \in {"spi_sync", "spi_sync_rx"} =>
            /\ log[k].arg[2] <= TX_BUF_SIZE * 8
            /\ log[k].arg[1] = (log[k].arg[2] + 7) \div 8
            /\ log[k].arg[1] <= TX_BUF_SIZE
            /\ Len(log[k].tx) = log[k].arg[1]
    /\ \A k \in 1..Len(last.calls) :
         last.calls[k].fn = "store_high" => last.calls[k].ret = 0

\* a Read in 9-bit framing behind a Write that had filled the accumulator
\* to 504 bits: the 63 bytes went out when the next Write overflowed, and
\* the Read staged its 25 bits in the emptied buffer
C27_Witness ==
    /\ last.type = TYPE_SPI /\ spi_9bit /\ last.kind = "read"
    /\ Len(log) = 3
    /\ log[1].arg = <<63, 504>> /\ log[2].arg = <<2, 9>>
    /\ log[3].op = "spi_sync_rx" /\ log[3].arg = <<4, 25>>
    /\ last.calls[3].fn = "store_high" /\ last.calls[3].ret = 0

\* the byte the last iteration took as its opcode is in none of the
\* instruction ranges
UnknownOpcodeRead ==
    /\ last.kind \in {"unknown", "end"}
    /\ Kind(LastStream[last.pos + 1]) = "unknown"

UsedUp ==
    \/ cmd = Len(LastStream)
    \/ last.kind = "delay" /\ cmd + 1 = Len(LastStream)

\* C29: send_cmd_list terminates on every stream and whatever the
\* transport returns: an iteration that is followed by another one, a lane
\* gate included, has consumed at least one byte of the stream and the
\* remaining length has decreased without passing 0; the run ends only
\* with the stream used up, truncated, at an unknown opcode, or on a
\* failed backend call; and every run that was entered returns
C29_Terminates ==
    /\ [][(Running /\ type' = type) =>
              /\ cmd' >= cmd + 1
              /\ length' <= length - 1
              /\ length' > 0
              /\ cmd' + length' = Len(Stream)]_vars
    /\ [][(Running /\ type' = "none") =>
              \/ last'.exit = "ret" /\ last'.rv < 0
                 /\ \E k \in 1..Len(last'.calls) : last'.calls[k].ret < 0
              \/ last'.exit = "break" /\ last'.trunc
              \/ last'.exit = "break" /\ last'.kind = "unknown"
              \/ last'.exit = "break" /\ UsedUp']_vars
    /\ Running ~> (~Running /\ runs # <<>>)

\* a run over a lane gate, a skipped Write and a Write has returned
C29_Witness ==
    /\ Ended /\ last.type = TYPE_MIPI /\ last.exit = "break"
    /\ seen.steps = 3 /\ cmd = Len(LastStream)
    /\ LastStream[1] = S_IF_1_LANE + 1

\* the stream offset behind the operands of the instruction the last
\* iteration decoded
OperandsEnd ==
    LET st == LastStream
        pos == last.pos
        op7 == Low7(st[pos + 1])
    IN CASE last.kind = "write" ->
              IF op7 = S_DCS_LENGTH THEN pos + 2 + st[pos + 2]
              ELSE IF op7 = S_DCS_BUF THEN pos + 2
              ELSE pos + 1 + op7
         [] last.kind = "read" ->
              pos + 1 + (IF last.generic THEN 2 ELSE 1)
                  + (op7 - S_DCS_READ1 + 1)
         [] last.kind = "patch" -> pos + 1 + (IF op7 = S_CONST THEN 6 ELSE 3)
         [] last.kind \in {"mrps", "delay"} -> pos + 2
         [] OTHER -> pos + 1

\* the operands of the last instruction reach behind the end of the stream
Overrun == last.kind # "none" /\ OperandsEnd > Len(LastStream)

\* C31: the bytes consumed plus the remaining length are the stream length
\* and the remaining length stays positive while the run goes on; an
\* instruction whose operands reach behind the end of the stream causes no
\* transport call, no sleep and no patch
C31_InBounds ==
    /\ Running => (cmd + length = Len(Stream) /\ length > 0)
    /\ Overrun =>
         /\ last.nops = 0
         /\ last.ncalls = 0
         /\ last.top = -1

\* C32: a FieldPatch that is decoded with the Skip Flag set consumes its
\* bytes and leaves the staged buffer as it was
C32_SkippedPatch ==
    [][(PatchAhead /\ skip) =>
          /\ cmd_buf' = cmd_buf
          /\ cmd' = cmd + 1 + (IF Low7(opcode) = S_CONST THEN 6 ELSE 3)]_vars


\* the instruction last handled follows a row of two or more lane gates
\* that begins the stream
AfterGateRow ==
    /\ last.kind \in {"write", "mrps", "read", "delay", "patch"}
    /\ ~last.trunc
    /\ last.pos >= 2
    /\ \A k \in 1..last.pos : Kind(LastStream[k]) = "lane"

EveryGateMatches ==
    \A k \in 1..last.pos : 1 + LastStream[k] - S_IF_1_LANE = lanes

Acted == last.nops > 0 \/ last.ncalls > 0 \/ last.top >= 0

\* the Skip Flag part of C33: a matching lane gate never clears the flag a
\* non-matching one set, and the flag is clear after the guarded instruction
C33_FlagPart ==
    AfterGateRow => /\ last.skipped = ~EveryGateMatches
                    /\ (Running => ~skip)

\* C33: the first instruction after a row of lane gates is executed exactly
\* when every gate of the row matches the active lane count, and the Skip
\* Flag is clear for the instruction after it
C33_GateRow ==
    AfterGateRow => /\ Acted = EveryGateMatches
                    /\ (Running => ~skip)


\* a serial transfer of the last iteration failed; k is its place
FailedTransfer(k) ==
    /\ LastOps[k].op \in {"spi_sync", "spi_sync_rx"}
    /\ LastOps[k].ret < 0

\* the transfers of C34 that the code does check: every one but the flush
\* before a Delay and the flush of pending bits before a 9-bit Read
C34_CheckedPart ==
    (last.type = TYPE_SPI /\ last.kind # "delay"
     /\ \E k \in 1..Len(LastOps) :
          FailedTransfer(k) /\ (last.kind = "read" => k = Len(LastOps)))
        => (~Running /\ last.rv < 0)

\* C34: on the serial transport a physical transfer that fails makes the run
\* return an error
C34_FailedTransferReturned ==
    (Ended /\ last.type = TYPE_SPI
     /\ \E k \in 1..Len(log) :
          /\ log[k].by = TYPE_SPI
          /\ log[k].op \in {"spi_sync", "spi_sync_rx"}
          /\ log[k].ret < 0)
       => last.rv < 0


\* the 8 bits of a byte, most significant first
ByteBits(b) == [k \in 1..8 |-> Bit(b, 8 - k)] \o <<>>

\* the bits one store_9bit call packs for the bytes p: 9 per byte, the
\* first bit 0 for the first byte and 1 for the others
RECURSIVE Frame9(_, _)
Frame9(p, first) ==
    IF Len(p) = 0 THEN <<>>
    ELSE <<IF first THEN 0 ELSE 1>> \o ByteBits(p[1]) \o Frame9(Tail(p), FALSE)

\* the bits of bytes sent as they are
RECURSIVE Frame8(_)
Frame8(p) == IF Len(p) = 0 THEN <<>> ELSE ByteBits(p[1]) \o Frame8(Tail(p))

\* the bytes that carry the bits bs, the last one filled up with fill
BitsToBytes(bs, fill) ==
    LET At(k) == IF k <= Len(bs) THEN bs[k] ELSE fill IN
    [j \in 1..((Len(bs) + 7) \div 8) |->
        128 * At(8 * j - 7) + 64 * At(8 * j - 6) + 32 * At(8 * j - 5)
        + 16 * At(8 * j - 4) + 8 * At(8 * j - 3) + 4 * At(8 * j - 2)
        + 2 * At(8 * j - 1) + At(8 * j)] \o <<>>

\* the transfer that carries the bits bs, none when there are no bits
Transfer(name, bs, fill) ==
    IF Len(bs) = 0 THEN <<>>
    ELSE <<[op |-> name, arg |-> <<(Len(bs) + 7) \div 8, Len(bs)>>,
            tx |-> BitsToBytes(bs, fill)]>>

\* the bytes of the instruction at offset pos of st: lane gates, direct and
\* length-prefixed Writes, Delays and Reads; 0 for any other instruction
SerialSize(st, pos) ==
    LET b == st[pos + 1]  op7 == Low7(b) IN
    IF Kind(b) = "lane" THEN 1
    ELSE IF op7 < S_DELAY THEN 1 + op7
    ELSE IF op7 = S_DCS_LENGTH /\ pos + 2 <= Len(st) THEN 2 + st[pos + 2]
    ELSE IF op7 = S_DELAY THEN 2
    ELSE IF Kind(b) = "read"
    THEN 1 + (IF IsGeneric(b) THEN 2 ELSE 1) + (op7 - S_DCS_READ1 + 1)
    ELSE 0

\* st is made of such instructions from offset pos on, all of them complete
\* and no Write too long for the transmit buffer
RECURSIVE IsSerial(_, _)
IsSerial(st, pos) ==
    IF pos >= Len(st) - 1 THEN TRUE
    ELSE LET n == SerialSize(st, pos) IN
         /\ n > 0 /\ pos + n <= Len(st)
         /\ (Kind(st[pos + 1]) = "write" => n < TX_BUF_SIZE)
         /\ IsSerial(st, pos + n)

\* the serial transfers a run over st asks for from offset pos on when
\* every transfer carries the bits packed in this run since the last
\* transfer and nothing else; sk is the Skip Flag and pend the bits packed
\* and not yet transferred
RECURSIVE SerialRef(_, _, _, _)
SerialRef(st, pos, sk, pend) ==
    IF pos >= Len(st) - 1 THEN Transfer("spi_sync", pend, 0)
    ELSE
    LET b == st[pos + 1]
        n == SerialSize(st, pos)
        k == IF IsGeneric(b) THEN 2 ELSE 1
    IN
    IF Kind(b) = "lane"
    THEN SerialRef(st, pos + 1, sk \/ 1 + b - S_IF_1_LANE # lanes, pend)
    ELSE IF sk THEN SerialRef(st, pos + n, FALSE, pend)
    ELSE IF Kind(b) = "write"
    THEN LET p == PayloadAt(st, pos) IN
         IF ~spi_9bit
         THEN Transfer("spi_sync", Frame8(p), 0)
              \o SerialRef(st, pos + n, FALSE, <<>>)
         ELSE IF Len(pend) + 9 * Len(p) > TX_BUF_SIZE * 8
         THEN Transfer("spi_sync", pend, 0)
              \o SerialRef(st, pos + n, FALSE, Frame9(p, TRUE))
         ELSE SerialRef(st, pos + n, FALSE, pend \o Frame9(p, TRUE))
    ELSE IF Kind(b) = "delay"
    THEN Transfer("spi_sync", pend, 0) \o SerialRef(st, pos + n, FALSE, <<>>)
    ELSE LET c == SubSeq(st, pos + 2, pos + 1 + k)
             ones == [j \in 1..(8 * (n - 1 - k)) |-> 1]
         IN Transfer("spi_sync", pend, 0)
            \o Transfer("spi_sync_rx",
                        (IF spi_9bit THEN Frame9(c, TRUE) ELSE Frame8(c))
                        \o ones, 1)
            \o SerialRef(st, pos + n, FALSE, <<>>)

\* the serial transfers made so far by the runs of this phase
SerialTransfers ==
    LET s == SelectSeq(log, LAMBDA o : o.op \in {"spi_sync", "spi_sync_rx"})
    IN [j \in 1..Len(s) |-> [op |-> s[j].op, arg |-> s[j].arg,
                             tx |-> s[j].tx]] \o <<>>

\* C35: every serial transfer carries the bits packed in the current run
\* since the last transfer and nothing else: the accumulator is 0 when the
\* first instruction of a run is decoded and after an instruction that
\* ends with a transfer, and the transfers of a run are those its stream
\* asks for, whatever an earlier run or a two-wire write left in the
\* transmit buffer
C35_OnlyCurrentRun ==
    /\ (Running /\ cmd = 0) => spi_bits = 0
    /\ (last.type = TYPE_SPI /\ last.kind # "write" /\ Len(LastOps) > 0
        /\ LastOps[Len(LastOps)].op \in {"spi_sync", "spi_sync_rx"})
          => spi_bits = 0
    /\ (Ended /\ last.type = TYPE_SPI /\ IsSerial(msc.spi, 0)) =>
          LET ref == SerialRef(msc.spi, 0, FALSE, <<>>)
              act == SerialTransfers
          IN /\ Len(act) <= Len(ref)
             /\ act = SubSeq(ref, 1, Len(act))
             /\ last.rv = 0 => act = ref

\* a two-wire Write has used the transmit buffer before the serial run of a
\* Read of 2 bytes: its one transfer is the 9 bits of the command, 16 one
\* bits and 7 more to fill the last byte
C35_Witness ==
    /\ Ended /\ last.type = TYPE_SPI /\ spi_9bit /\ last.rv = 0
    /\ msc.i2c = I_W1 /\ msc.spi = I_RD2
    /\ Len(log) = 2 /\ log[1].by = TYPE_I2C
    /\ log[2].op = "spi_sync_rx" /\ log[2].arg = <<4, 25>>
    /\ log[2].tx = <<5, 127, 255, 255>>

\* C36: the staged buffer is in its reset state, all zero, when a run
\* starts, so a BufferedWrite that no FieldPatch precedes sends the same
\* bytes in every run: zeros
C36_SameBytesEveryRun ==
    (BufferedWriteDone /\ last.type = TYPE_MIPI /\ last.pos = 0
     /\ Len(LastOps) > 0)
        => LastOps[1].arg = Zeros(Len(LastOps[1].arg))

\* C37: the successful regulator enables minus the regulator disables are
\* 1 when a lifecycle call has returned with the panel prepared and 0 when
\* it has returned with the panel not prepared; never negative, never 2
C37_RegulatorBalance ==
    /\ supply \in {0, 1}
    /\ pc = "idle" => supply = (IF prepared THEN 1 ELSE 0)

\* prepare has enabled the regulator, its init phase has failed and it has
\* disabled the regulator again before it returned the error
C37_Witness ==
    /\ pc = "idle" /\ called.fn = "prepare" /\ called.ret < 0
    /\ ~prepared /\ supply = 0
    /\ Len(log) >= 2
    /\ log[1].op = "regulator_enable" /\ log[1].ret = 0
    /\ log[Len(log)].op = "regulator_disable"

\* C38: when a lifecycle call has returned, prepare-enable is asserted and
\* reset deasserted if the panel is prepared, and prepare-enable is
\* deasserted and reset asserted if it is not
C38_LinesFollowPrepared ==
    pc = "idle" =>
        IF prepared
        THEN gpd_prepare_enable \in {NoLine, 1} /\ reset \in {NoLine, 0}
        ELSE gpd_prepare_enable \in {NoLine, 0} /\ reset \in {NoLine, 1}

\* a store_9bit call that packs at the accumulator's offset: the bits
\* pending and the bits of the call fit the transmit buffer
PacksInPlace ==
    /\ pk'.kind = "pack" /\ pk'.calls = pk.calls + 1
    /\ pk'.i + 9 * Len(pk'.p) <= TX_BUF_SIZE * 8

\* C39: store_9bit of the bytes b0..b(k-1) at bit offset i, without a
\* flush, leaves the bits [0, i) as they were, puts the 8 bits of bj, most
\* significant first, behind one marker bit at [i + 9j, i + 9j + 9), and
\* clears the bits of the last byte it writes from bit i + 9k on
C39_PackLayout ==
    [][PacksInPlace =>
          LET i == pk'.i
              p == pk'.p
              end == i + 9 * Len(p)
          IN /\ spi_bits = i /\ spi_bits' = end
             /\ \A b \in 0..(i - 1) : MsbBit(tx_buf', b) = MsbBit(tx_buf, b)
             /\ \A j \in 0..(Len(p) - 1) : \A b \in 0..7 :
                   MsbBit(tx_buf', i + 9 * j + 1 + b) = Bit(p[j + 1], 7 - b)
             /\ \A b \in end..(8 * ((end + 7) \div 8) - 1) :
                   MsbBit(tx_buf', b) = 0]_vars

\* 55 bytes were packed behind one, from bit 9 on, and the last group
\* ends where the buffer ends
C39_Witness ==
    /\ pk.kind = "pack" /\ pk.nflush = 0 /\ pk.ret = 0
    /\ pk.i = 9 /\ Len(pk.p) = 55 /\ spi_bits = 504

\* the byte made of the 8 bits from bit k on of the buffer b
BufByte(b, k) ==
    128 * MsbBit(b, k) + 64 * MsbBit(b, k + 1) + 32 * MsbBit(b, k + 2)
    + 16 * MsbBit(b, k + 3) + 8 * MsbBit(b, k + 4) + 4 * MsbBit(b, k + 5)
    + 2 * MsbBit(b, k + 6) + MsbBit(b, k + 7)

\* C40: extract_data of n bytes at start bit s returns as byte j the 8
\* bits [s + 8j, s + 8j + 8) of the buffer, most significant first, no bit
\* left out; at the offset where store_high appended its ones it returns
\* bytes 0xff
C40_ExtractLayout ==
    pk.kind = "extract" =>
        /\ pk.out = [j \in 1..pk.n |-> BufByte(tx_buf, pk.s + 8 * (j - 1))]
        /\ pk.high > 0 => pk.out = [j \in 1..pk.n |-> 255]

\* two bytes 0xff were extracted at bit 9, behind the one group that was
\* packed before store_high
C40_Witness ==
    /\ pk.kind = "extract" /\ pk.high = 16
    /\ pk.s = 9 /\ pk.n = 2 /\ pk.out = <<255, 255>>
    /\ tx_buf[0] # 255

====
